---- MODULE Spec2Model ----
(***************************************************************************)
(* A model of the evaluation core of invest-agent: the bitemporal series   *)
(* store (app/ingest.py, app/queries.py), the indicator evaluator and the  *)
(* snapshot service (app/snapshot.py, app/stats.py) and the event          *)
(* endpoints that persist day-level snapshots (api/routers/events.py).     *)
(*                                                                         *)
(* Time is a small range of ticks; a calendar date is a tick divided by    *)
(* TicksPerDay.  Decimal values are integers.  A vintage_id (UUID) is the  *)
(* next unused natural number.                                             *)
(***************************************************************************)
EXTENDS Integers, Sequences, FiniteSets, TLC

VARIABLES
    store,      \* table series_vintages: a set of rows
    nextId,     \* the next unused vintage_id
    result,     \* the rows returned by the last read of the store
    registry,   \* table indicator_registry, ordered by indicator_id
    response,   \* the response of the last snapshot computation
    snapshots,  \* table snapshots with its frozen inputs and indicators
    nextSnap,   \* the next unused snapshot_id
    req,        \* per worker: the event request it is serving
    qt_caps,    \* table qt_caps: a set of rows
    evaluation, \* the result of the last evaluation of one indicator
    router,     \* the response of the last router computation
    tool,       \* the last agent tool call and what it returned
    question,   \* agent stream: the question asked
    messages,   \* agent stream: the conversation kept by the generator
    model_input,\* agent stream: what the last provider stream call was sent
    events,     \* agent stream: the events yielded so far
    tool_trace, \* agent stream: the tool calls executed, with their results
    answer_text,\* agent stream: the answer collected so far
    step,       \* agent stream: the provider stream calls made so far
    pc,         \* agent stream: where the generator stands (idle, loop,
                \* ended or failed after the last stream, done)
    weekly,     \* what compute_weekly_net_settlements returned last
    outage,     \* ingest run: the sources whose fetch fails
    tasks,      \* ingest run: the FRED tasks still running
    ingested,   \* ingest run: the series upserted so far
    built,      \* ingest run: the derived-series builders that have run
    stage,      \* ingest run: where fetch_core_series stands
    context,    \* brief: the indicator infos and the regime of the snapshot
    completion, \* brief: what provider.complete does with the prompt
    worker,     \* brief: the thread of the executor running provider.complete
    brief_pc,   \* brief: where generate_brief stands
    brief,      \* brief: what generate_brief returned
    clock,      \* process caches: time.time(), in ticks
    brief_cache,    \* _BRIEF_CACHE: a set of entries
    snapshot_cache, \* _SNAPSHOT_CACHE: a set of entries
    lookup      \* process caches: the last lookup and what it returned

storeVars == <<store, nextId, result>>
agentVars == <<question, messages, model_input, events, tool_trace,
               answer_text, step, pc>>
ingestVars == <<weekly, outage, tasks, ingested, built, stage>>
cacheVars == <<clock, brief_cache, snapshot_cache, lookup>>
briefVars == <<context, completion, worker, brief_pc, brief, cacheVars>>
evalVars == <<qt_caps, evaluation, router, tool, agentVars, ingestVars,
              briefVars>>
snapVars == <<registry, response, snapshots, nextSnap, req, evalVars>>
vars == <<store, nextId, result, registry, response, snapshots, nextSnap, req,
          qt_caps, evaluation, router, tool, agentVars, ingestVars,
          briefVars>>

-----------------------------------------------------------------------------
(* Bounds of the model and sample input sets.                              *)

MaxRows == 2          \* series_vintages rows inserted in one behaviour
MaxBatch == 2         \* rows passed to one UpsertPoints call
MaxStored == 2        \* rows of a store that the reads are applied to
MaxTime == 2          \* the last timestamp
TicksPerDay == 2      \* timestamps per calendar date

NULL == -1            \* SQL NULL / Python None of a nullable column

Times == 0..MaxTime                      \* timestamps (fetched_at, as_of)
DateOf(t) == t \div TicksPerDay          \* ts::date, datetime.date()
Days == {DateOf(t) : t \in Times}        \* calendar dates
Series == {"X"}                          \* series_id of the store traffic
Values == {1, 2}                         \* value_numeric
Scales == {1}                            \* scale
VintageDates == {NULL, 1}                \* vintage_date
PublicationDates == {NULL, 0}            \* publication_date (a timestamp)
Limits == {1, 2}                         \* LIMIT :lim of the point queries

-----------------------------------------------------------------------------
(* Generic helpers.                                                        *)

Max(S) == CHOOSE x \in S : \A y \in S : y <= x

SeqOfSet(S, n) == {q \in [1..n -> S] : TRUE}

-----------------------------------------------------------------------------
(* Series store: upsert (app/ingest.py).                                   *)

\* The filters of the lookup: key columns compared with ==, or IS NULL
\* when the input value is None.
KeyMatch(e, sid, r) ==
    /\ e.series_id = sid
    /\ e.observation_date = r.observation_date
    /\ e.vintage_date = r.vintage_date
    /\ e.publication_date = r.publication_date

\* The row the else-branch adds to the session (vintage_id is assigned at
\* flush time).
NewRow(sid, r, scale, vid) ==
    [vintage_id |-> vid,
     series_id |-> sid,
     observation_date |-> r.observation_date,
     vintage_date |-> r.vintage_date,
     publication_date |-> r.publication_date,
     fetched_at |-> r.fetched_at,
     value_numeric |-> r.value_numeric,
     scale |-> scale]

\* (a defect: the rewrite also stamps the row with the new fetch time)
Rewrite_Fetched(e, r, scale) ==
    [e EXCEPT !.value_numeric = r.value_numeric, !.scale = scale,
              !.fetched_at = r.fetched_at]

\* The if-branch: only the payload columns of the existing row are rewritten.
Rewrite(e, r, scale) ==
    [e EXCEPT !.value_numeric = r.value_numeric, !.scale = scale]

\* The for-loop over rows.  db is the session's view of the persistent rows,
\* pending the rows added to the session and not yet flushed.  The session
\* is created with autoflush=False, so the lookup query does not see pending
\* rows.  .first() of several matching rows returns any of them.  The result
\* is the set of possible <<db, pending>> pairs at the end of the loop.
RECURSIVE UpsertLoop(_, _, _, _, _, _)
UpsertLoop(db, pending, sid, rows, i, scale) ==
    IF i > Len(rows) THEN {<<db, pending>>}
    ELSE LET r == rows[i]
             matches == {e \in db : KeyMatch(e, sid, r)}
         IN  IF matches # {}
             THEN UNION {UpsertLoop((db \ {e}) \cup {Rewrite(e, r, scale)},
                                    pending, sid, rows, i + 1, scale)
                         : e \in matches}
             ELSE UpsertLoop(db, Append(pending, NewRow(sid, r, scale, NULL)),
                             sid, rows, i + 1, scale)

\* UniqueConstraint uq_series_observation_vintage_publication.  In the
\* database two NULLs in a unique column are distinct, so only keys whose
\* four columns are all non-NULL are protected.
SameKey(a, b) ==
    /\ a.series_id = b.series_id
    /\ a.observation_date = b.observation_date
    /\ a.vintage_date = b.vintage_date
    /\ a.publication_date = b.publication_date

UniqueViolation(pending) ==
    \E i, j \in 1..Len(pending) :
        /\ i < j
        /\ SameKey(pending[i], pending[j])
        /\ pending[i].vintage_date # NULL
        /\ pending[i].publication_date # NULL

\* db.commit(): flush the rewrites and the pending inserts in one
\* transaction; an IntegrityError leaves the table as it was.
Commit(old, db, pending, first) ==
    IF UniqueViolation(pending) THEN old
    ELSE db \cup {[pending[i] EXCEPT !.vintage_id = first + i - 1]
                  : i \in 1..Len(pending)}

InputRows(fa) ==
    [observation_date : Days, vintage_date : VintageDates,
     publication_date : PublicationDates, fetched_at : {fa},
     value_numeric : Values]

Batches(fa) == UNION {SeqOfSet(InputRows(fa), n) : n \in 1..MaxBatch}

\* upsert_series_vintages(db, series_id, rows, units, scale, source, ...).
\* fa is the fetched_at the adapter stamps on the rows of the batch (or
\* datetime.now(UTC) when a row carries none).
UpsertPoints(sid, rows, scale) ==
    /\ nextId + Len(rows) <= MaxRows + 1
    /\ \E out \in UpsertLoop(store, <<>>, sid, rows, 1, scale) :
          /\ store' = Commit(store, out[1], out[2], nextId)
          /\ nextId' = IF UniqueViolation(out[2]) THEN nextId
                       ELSE nextId + Len(out[2])
    /\ UNCHANGED <<result, snapVars>>

-----------------------------------------------------------------------------
(* Series store: reads (app/queries.py, view series_latest).               *)

\* COALESCE(vintage_date, publication_date::date, fetched_at::date)
Coalesce(r) ==
    IF r.vintage_date # NULL THEN r.vintage_date
    ELSE IF r.publication_date # NULL THEN DateOf(r.publication_date)
    ELSE DateOf(r.fetched_at)

\* (a defect: the sort keys swapped, fetched_at first)
SortsBefore_FetchedFirst(a, b) ==
    \/ a.fetched_at > b.fetched_at
    \/ a.fetched_at = b.fetched_at /\ Coalesce(a) > Coalesce(b)

\* ORDER BY COALESCE(...) DESC, fetched_at DESC: a sorts strictly before b.
SortsBefore(a, b) ==
    \/ Coalesce(a) > Coalesce(b)
    \/ Coalesce(a) = Coalesce(b) /\ a.fetched_at > b.fetched_at

ReadPaths ==
    {"latest_values", "as_of_values", "latest_points", "as_of_points",
     "as_of_pub", "up_to_obs"}

\* (a defect: the as-of cutoffs strict)
PassesFilter_Strict(path, r, sid, as_of) ==
    /\ r.series_id = sid
    /\ CASE path = "as_of_values" -> r.fetched_at < as_of
         [] path = "as_of_points" -> r.fetched_at < as_of
         [] path = "as_of_pub" -> Coalesce(r) < DateOf(as_of)
         [] path = "up_to_obs" -> r.observation_date < DateOf(as_of)
         [] OTHER -> TRUE

\* The WHERE clause of each query.
PassesFilter(path, r, sid, as_of) ==
    /\ r.series_id = sid
    /\ CASE path = "as_of_values" -> r.fetched_at <= as_of
         [] path = "as_of_points" -> r.fetched_at <= as_of
         [] path = "as_of_pub" -> Coalesce(r) <= DateOf(as_of)
         [] path = "up_to_obs" -> r.observation_date <= DateOf(as_of)
         [] OTHER -> TRUE

Filtered(path, rows, sid, as_of) ==
    {r \in rows : PassesFilter(path, r, sid, as_of)}

\* DISTINCT ON (series_id, observation_date) / ROW_NUMBER() ... = 1: the
\* rows of a group that the ORDER BY can put first (one, unless two rows
\* tie on both sort keys, in which case the database returns either).
Firsts(rows, d) ==
    LET G == {r \in rows : r.observation_date = d}
    IN  {r \in G : \A o \in G : ~SortsBefore(o, r)}

ObsDatesOf(rows) == {r.observation_date : r \in rows}

\* ORDER BY observation_date DESC LIMIT :lim (the two *_values queries have
\* no limit).
HasLimit(path) == path \notin {"latest_values", "as_of_values"}

LimitDates(path, dates, lim) ==
    IF HasLimit(path)
    THEN {d \in dates : Cardinality({e \in dates : e > d}) < lim}
    ELSE dates

\* One first-ranked row per observation date, in ascending
\* observation_date order (rows.sort(key=observation_date)).
RECURSIVE PickPerDate(_, _)
PickPerDate(F, dates) ==
    IF dates = {} THEN {<<>>}
    ELSE LET d == Max(dates)
         IN  {Append(q, r) : q \in PickPerDate(F, dates \ {d}),
                             r \in Firsts(F, d)}

\* Every list a read can return.
ReadResults(path, rows, sid, as_of, lim) ==
    LET F == Filtered(path, rows, sid, as_of)
    IN  PickPerDate(F, LimitDates(path, ObsDatesOf(F), lim))

NoRead == [path |-> "none", sid |-> "", as_of |-> NULL, lim |-> 0,
           rows |-> <<>>]

Read(path, sid, as_of, lim) ==
    /\ \E rows \in ReadResults(path, store, sid, as_of, lim) :
          result' = [path |-> path, sid |-> sid, as_of |-> as_of,
                     lim |-> lim, rows |-> rows]
    /\ UNCHANGED <<store, nextId, snapVars>>

-----------------------------------------------------------------------------
(* Specification of the store under ingest traffic.                        *)

\* The snapshot service beside the store; it stays idle under ingest and
\* read traffic.
Procs == {1, 2}       \* the workers serving event requests

NoResponse == [as_of |-> NULL]
Idle == [pc |-> "idle"]
NoEvaluation == [row |-> NULL]
NoRouter == [picks |-> NULL]
NoTool == [name |-> "", result |-> NULL, cache |-> {}, now |-> NULL]

\* No registry loaded, nothing computed or persisted, no request in flight.
\* No agent stream has been opened.
AgentIdle ==
    /\ question = <<>>
    /\ messages = <<>>
    /\ model_input = <<>>
    /\ events = <<>>
    /\ tool_trace = <<>>
    /\ answer_text = <<>>
    /\ step = 0
    /\ pc = "idle"

\* compute_weekly_net_settlements has not been called.
NoWeekly == [done |-> FALSE, rows |-> <<>>]

\* No ingest run has been started.
IngestIdle ==
    /\ weekly = NoWeekly
    /\ outage = {}
    /\ tasks = {}
    /\ ingested = {}
    /\ built = {}
    /\ stage = "idle"

NoContext == [indicator_infos |-> <<>>, regime |-> [score |-> 0, max_score |-> 1]]
NoCompletion == [does |-> "returns", after |-> 0, markdown |-> <<>>]
NoBrief == [returned |-> FALSE, markdown |-> <<>>,
            verifier |-> [ok |-> FALSE, issues |-> <<>>]]

NoLookup == [cache |-> "none"]

\* The process has just started: its caches are empty.
CacheIdle ==
    /\ clock = 0
    /\ brief_cache = {}
    /\ snapshot_cache = {}
    /\ lookup = NoLookup

\* No brief has been asked for.
BriefIdle ==
    /\ context = NoContext
    /\ completion = NoCompletion
    /\ worker = "none"
    /\ brief_pc = "idle"
    /\ brief = NoBrief
    /\ CacheIdle

ServiceIdle ==
    /\ registry = <<>>
    /\ response = NoResponse
    /\ snapshots = {}
    /\ nextSnap = 1
    /\ req = [p \in Procs |-> Idle]
    /\ qt_caps = {}
    /\ evaluation = NoEvaluation
    /\ router = NoRouter
    /\ tool = NoTool
    /\ AgentIdle
    /\ IngestIdle
    /\ BriefIdle

Init ==
    /\ store = {}
    /\ nextId = 1
    /\ result = NoRead
    /\ ServiceIdle

Upsert ==
    \E sid \in Series, fa \in Times, scale \in Scales :
        \E rows \in Batches(fa) : UpsertPoints(sid, rows, scale)

Next == Upsert

Spec == Init /\ [][Next]_storeVars

-----------------------------------------------------------------------------
(* Specification of the reads: a store that ingest can have produced, and  *)
(* every read applied to it.                                               *)

Range(q) == {q[i] : i \in DOMAIN q}

\* vintage_id 1..n given to the rows of S.
RECURSIVE Numbered(_, _)
Numbered(S, n) ==
    IF S = {} THEN {}
    ELSE LET r == CHOOSE x \in S : TRUE
         IN  {[r EXCEPT !.vintage_id = n]} \cup Numbered(S \ {r}, n + 1)

StoredRows ==
    [vintage_id : {NULL}, series_id : Series, observation_date : Days,
     vintage_date : VintageDates, publication_date : PublicationDates,
     fetched_at : Times, value_numeric : {1}, scale : {1}]

\* The sets of at most n rows with pairwise distinct keys.
RECURSIVE RowSets(_)
RowSets(n) ==
    IF n = 0 THEN {{}}
    ELSE LET smaller == RowSets(n - 1)
         IN  smaller \cup
             {S \cup {r} : <<S, r>> \in
                 {p \in smaller \X StoredRows :
                     \A e \in p[1] : ~SameKey(e, p[2])}}

Stores == {Numbered(S, 1) : S \in RowSets(MaxStored)}

InitRead ==
    /\ store \in Stores
    /\ nextId = Cardinality(store) + 1
    /\ result = NoRead
    /\ ServiceIdle

\* One read per behaviour: a read changes nothing a later read depends on.
NextRead ==
    /\ result = NoRead
    /\ \E path \in ReadPaths, sid \in Series, as_of \in Times, lim \in Limits :
          Read(path, sid, as_of, lim)

SpecRead == InitRead /\ [][NextRead]_storeVars

-----------------------------------------------------------------------------
(* Statistics kernel (app/stats.py).  A z-score is kept exact: its sign    *)
(* and its square as a reduced fraction num/den.                           *)

Window == 20          \* compute_z_from_points(points, window=20)
PointsLimit == 40     \* pts(series_id, 40)

Abs(x) == IF x < 0 THEN -x ELSE x
Sign(x) == IF x > 0 THEN 1 ELSE IF x < 0 THEN -1 ELSE 0

RECURSIVE GCD(_, _)
GCD(a, b) == IF b = 0 THEN a ELSE GCD(b, a % b)

RECURSIVE SumSeq(_)
SumSeq(q) == IF Len(q) = 0 THEN 0 ELSE q[1] + SumSeq(Tail(q))

\* q[-n:]
LastN(q, n) == IF Len(q) <= n THEN q ELSE SubSeq(q, Len(q) - n + 1, Len(q))

\* q[:n]
FirstN(q, n) == SubSeq(q, 1, n)

ZNone == [def |-> FALSE, sgn |-> 0, num |-> 0, den |-> 1]

ZOf(sgn, num, den) ==
    LET g == GCD(num, den)
    IN  [def |-> TRUE, sgn |-> sgn, num |-> num \div g, den |-> den \div g]

\* With n values of sum S: mean = S/n, var = Q/(n^2 (n-1)) where
\* Q = sum (n v - S)^2, and z = (last - mean)/std, so z^2 = d^2 (n-1)/Q
\* with d = n last - S.  The guard std < max(1e-6, 1e-3 |mean|) is
\* var < 1e-12 or var < 1e-6 mean^2; for integer values and n <= 20 the
\* first holds exactly when Q = 0.
compute_z_from_points(points, window) ==
    IF Len(points) = 0 THEN ZNone
    ELSE LET tail == LastN(points, window)
             values == [i \in 1..Len(tail) |-> tail[i].value_numeric]
             n == Len(values)
         IN  IF n < 3 THEN ZNone
             ELSE LET S == SumSeq(values)
                      Q == SumSeq([i \in 1..n |->
                                      (n * values[i] - S) * (n * values[i] - S)])
                      d == n * values[n] - S
                  IN  IF Q = 0 \/ Q * 1000000 < S * S * (n - 1) THEN ZNone
                      ELSE ZOf(Sign(d), d * d * (n - 1), Q)

\* abs(z) >= cutoff, abs(z) < abs(w)
ZAbsGeq(z, cutoff) == z.num >= cutoff * cutoff * z.den
ZAbsLess(z, w) == z.num * w.den < w.num * z.den

-----------------------------------------------------------------------------
(* Indicator evaluator (app/snapshot.py, compute_indicator_status).        *)

NONE == ""            \* Python None / empty string of a text column

directionality_sign(directionality) ==
    CASE directionality = "higher_is_supportive" -> 1
      [] directionality = "lower_is_supportive" -> -1
      [] directionality = "higher_is_draining" -> -1
      [] OTHER -> 1

_resolve_series_id(series_id) ==
    IF series_id = "RRP" THEN "RRPONTSYD" ELSE series_id

\* float(p["value_numeric"]) * float(p.get("scale", 1.0))
_usd_value(p) == p.value_numeric * p.scale

\* The read each pts() call makes: latest without as_of, else by as_of_mode.
PtsPath(as_of, as_of_mode) ==
    IF as_of = NULL THEN "latest_points"
    ELSE IF as_of_mode = "pub" THEN "as_of_pub"
    ELSE IF as_of_mode = "obs" THEN "up_to_obs"
    ELSE "as_of_points"

\* pts(series_id, limit) on a view: view[sid] is the list the read of sid
\* returns without a limit cutting it; LIMIT keeps the latest observations.
pts(view, series_id, limit) == LastN(view[series_id], limit)

StatusStr(status) ==
    IF status > 0 THEN "+1" ELSE IF status < 0 THEN "-1" ELSE "0"

NoProvenance(series_ids) ==
    [series |-> series_ids, observation_date |-> NULL, vintage_id |-> NULL]

\* The not-available evidence row.
NotAvailable(reg, series_ids) ==
    [row |-> [id |-> reg.indicator_id, value_numeric |-> NULL,
              z20 |-> ZNone, status |-> "n/a",
              provenance |-> NoProvenance(series_ids)],
     contribution |-> 0]

\* int(reg.persistence or 1), float(reg.z_cutoff or 1.0)
Required(reg) ==
    IF reg.persistence = NULL \/ reg.persistence = 0 THEN 1
    ELSE reg.persistence
Cutoff(reg) ==
    IF reg.z_cutoff = NULL \/ reg.z_cutoff = 0 THEN 1 ELSE reg.z_cutoff

\* cmp(v) of the generic threshold rule; the trigger is the comparator and
\* operand that the regular expression finds in trigger_default, if any.
cmp(trigger, v) ==
    CASE trigger.comp = ">" -> v > trigger.thresh
      [] trigger.comp = ">=" -> v >= trigger.thresh
      [] trigger.comp = "<" -> v < trigger.thresh
      [] trigger.comp = "<=" -> v <= trigger.thresh
      [] OTHER -> FALSE

LastProvenance(series_ids, latest) ==
    [series |-> series_ids,
     observation_date |-> latest.observation_date,
     vintage_id |-> latest.vintage_id]

\* trigger_default is the text as a list of tokens: a comparator
\* (>=, >, <=, <), a number, or other text.
Cmp(op) == [t |-> "cmp", v |-> op]
Num(n) == [t |-> "num", v |-> n]
Txt == [t |-> "txt", v |-> NULL]

\* re.search of (>=|>|<=|<)\s*number: the first comparator that a number
\* follows, with that number; none when the text is empty or has no match.
ParseTrigger(trigger_default) ==
    LET hits == {i \in 1..(Len(trigger_default) - 1) :
                    /\ trigger_default[i].t = "cmp"
                    /\ trigger_default[i + 1].t = "num"}
    IN  IF hits = {} THEN [comp |-> NONE, thresh |-> NULL]
        ELSE LET i == CHOOSE h \in hits : \A g \in hits : h <= g
             IN  [comp |-> trigger_default[i].v,
                  thresh |-> trigger_default[i + 1].v]

\* (a defect: one satisfying observation among the last ones is enough)
ThresholdStatus_AnyOf(reg, series_ids, points) ==
    LET required == Required(reg)
        recent == LastN(points, required)
        ok == Cardinality({i \in 1..Len(recent) :
                              cmp(ParseTrigger(reg.trigger_default),
                                  recent[i].value_numeric)})
        status == IF ok >= 1
                  THEN (IF directionality_sign(reg.directionality) > 0
                        THEN 1 ELSE -1)
                  ELSE 0
        latest == points[Len(points)]
    IN  [row |-> [id |-> reg.indicator_id,
                  value_numeric |-> latest.value_numeric,
                  z20 |-> ZNone, status |-> StatusStr(status),
                  provenance |-> LastProvenance(series_ids, latest)],
         contribution |-> status]

\* Generic single-series threshold rule.
ThresholdStatus(reg, series_ids, points) ==
    LET required == Required(reg)
        recent == LastN(points, required)
        ok == Cardinality({i \in 1..Len(recent) :
                              cmp(ParseTrigger(reg.trigger_default),
                                  recent[i].value_numeric)})
        status == IF ok >= required
                  THEN (IF directionality_sign(reg.directionality) > 0
                        THEN 1 ELSE -1)
                  ELSE 0
        latest == points[Len(points)]
    IN  [row |-> [id |-> reg.indicator_id,
                  value_numeric |-> latest.value_numeric,
                  z20 |-> ZNone, status |-> StatusStr(status),
                  provenance |-> LastProvenance(series_ids, latest)],
         contribution |-> status]

\* The two persistence loops: the number of consecutive truncations
\* back, back+1, ... (below required) whose z clears the cutoff with the
\* sign dir after directionality.
RECURSIVE Qualifies(_, _, _, _, _)
Qualifies(reg, points, back, required, dir) ==
    IF back >= required THEN 0
    ELSE IF Len(points) - back < 3 THEN 0
    ELSE LET z_i == compute_z_from_points(
                       FirstN(points, Len(points) - back), Window)
         IN  IF ~z_i.def \/ ~ZAbsGeq(z_i, Cutoff(reg)) THEN 0
             ELSE IF z_i.sgn * directionality_sign(reg.directionality) * dir > 0
                  THEN 1 + Qualifies(reg, points, back + 1, required, dir)
                  ELSE 0

\* (a defect: persistence is ignored, the latest z decides)
ZStatus_LatestOnly(reg, series_ids, points) ==
    LET z == compute_z_from_points(points, Window)
        status ==
            IF ~z.def THEN 0
            ELSE IF Qualifies(reg, points, 0, 1, 1) >= 1 THEN 1
            ELSE IF Qualifies(reg, points, 0, 1, -1) >= 1 THEN -1
            ELSE 0
        latest == points[Len(points)]
    IN  [row |-> [id |-> reg.indicator_id,
                  value_numeric |-> _usd_value(latest),
                  z20 |-> z, status |-> StatusStr(status),
                  provenance |-> LastProvenance(series_ids, latest)],
         contribution |-> status]

\* The z-scoring rule.
ZStatus(reg, series_ids, points) ==
    LET z == compute_z_from_points(points, Window)
        required == Required(reg)
        status ==
            IF ~z.def THEN 0
            ELSE IF Qualifies(reg, points, 0, required, 1) >= required THEN 1
            ELSE IF Qualifies(reg, points, 0, required, -1) >= required
                 THEN -1
            ELSE 0
        latest == points[Len(points)]
    IN  [row |-> [id |-> reg.indicator_id,
                  value_numeric |-> _usd_value(latest),
                  z20 |-> z, status |-> StatusStr(status),
                  provenance |-> LastProvenance(series_ids, latest)],
         contribution |-> status]

\* The points of a list by observation date (a dict keeps the last one).
ByDate(points, d) ==
    points[CHOOSE i \in 1..Len(points) :
              /\ points[i].observation_date = d
              /\ \A j \in (i + 1)..Len(points) : points[j].observation_date # d]

DatesOf(points) == {points[i].observation_date : i \in 1..Len(points)}

\* sorted(S) of a set of dates
RECURSIVE Sorted(_)
Sorted(S) ==
    IF S = {} THEN <<>>
    ELSE LET m == CHOOSE x \in S : \A y \in S : x <= y
         IN  <<m>> \o Sorted(S \ {m})

SpreadLimit == 60

\* (a defect: the spread is looked at on the latest common date only)
SofrIorbStatus_LatestOnly(reg, series_ids, view) ==
    LET sofr_pts == pts(view, _resolve_series_id(series_ids[1]), SpreadLimit)
        iorb_pts == pts(view, _resolve_series_id(series_ids[2]), SpreadLimit)
        common_dates == Sorted(DatesOf(sofr_pts) \cap DatesOf(iorb_pts))
    IN  IF Len(sofr_pts) = 0 \/ Len(iorb_pts) = 0 \/ Len(common_dates) = 0
        THEN NotAvailable(reg, series_ids)
        ELSE LET last == common_dates[Len(common_dates)]
                 value == ByDate(sofr_pts, last).value_numeric
                          - ByDate(iorb_pts, last).value_numeric
                 status == IF value > 0
                           THEN (IF directionality_sign(reg.directionality) > 0
                                 THEN 1 ELSE -1)
                           ELSE 0
             IN  [row |-> [id |-> reg.indicator_id, value_numeric |-> value,
                           z20 |-> ZNone, status |-> StatusStr(status),
                           provenance |->
                               [series |-> series_ids,
                                observation_date |-> last,
                                vintage_id |-> NULL]],
                  contribution |-> status]

\* The sofr_iorb rule: the spread SOFR - IORB on the dates both series have.
SofrIorbStatus(reg, series_ids, view) ==
    LET sofr_pts == pts(view, _resolve_series_id(series_ids[1]), SpreadLimit)
        iorb_pts == pts(view, _resolve_series_id(series_ids[2]), SpreadLimit)
        common_dates == Sorted(DatesOf(sofr_pts) \cap DatesOf(iorb_pts))
    IN  IF Len(sofr_pts) = 0 \/ Len(iorb_pts) = 0 \/ Len(common_dates) = 0
        THEN NotAvailable(reg, series_ids)
        ELSE LET required == Required(reg)
                 recent == LastN(common_dates, required)
                 ok == Cardinality({i \in 1..Len(recent) :
                           ByDate(sofr_pts, recent[i]).value_numeric
                           - ByDate(iorb_pts, recent[i]).value_numeric > 0})
                 status == IF ok >= required
                           THEN (IF directionality_sign(reg.directionality) > 0
                                 THEN 1 ELSE -1)
                           ELSE 0
                 last == common_dates[Len(common_dates)]
             IN  [row |-> [id |-> reg.indicator_id,
                           value_numeric |->
                               ByDate(sofr_pts, last).value_numeric
                               - ByDate(iorb_pts, last).value_numeric,
                           z20 |-> ZNone, status |-> StatusStr(status),
                           \* observation_date is d, the variable of the
                           \* reversed loop: the earliest date it visited
                           provenance |->
                               [series |-> series_ids,
                                observation_date |-> recent[1],
                                vintage_id |-> NULL]],
                  contribution |-> status]

QtSeries == <<"WSHOSHO", "WSHOMCB">>

\* max(0.0, -delta) with delta = usd(latest) - usd(prev)
Runoff(two) ==
    IF _usd_value(two[1]) - _usd_value(two[2]) > 0
    THEN _usd_value(two[1]) - _usd_value(two[2]) ELSE 0

\* QTCap rows with effective_date <= obs_date, the latest first: .first()
ApplicableCaps(caps, obs_date) == {c \in caps : c.effective_date <= obs_date}

FirstCap(caps, obs_date) ==
    CHOOSE c \in ApplicableCaps(caps, obs_date) :
        \A o \in ApplicableCaps(caps, obs_date) :
            o.effective_date <= c.effective_date

\* (a defect: the runoff has to exceed the cap)
AtCap_Strict(ust_runoff, mbs_runoff, cap) ==
    ust_runoff > cap.ust_cap_usd_week \/ mbs_runoff > cap.mbs_cap_usd_week

AtCap(ust_runoff, mbs_runoff, cap) ==
    ust_runoff >= cap.ust_cap_usd_week \/ mbs_runoff >= cap.mbs_cap_usd_week

\* The qt_pace rule: weekly runoff against the caps in force.
QtPaceStatus(reg, view, caps) ==
    LET ust_pts == pts(view, _resolve_series_id("WSHOSHO"), 2)
        mbs_pts == pts(view, _resolve_series_id("WSHOMCB"), 2)
    IN  IF Len(ust_pts) < 2 \/ Len(mbs_pts) < 2
        THEN NotAvailable(reg, QtSeries)
        ELSE LET ust_runoff == Runoff(ust_pts)
                 mbs_runoff == Runoff(mbs_pts)
                 obs_date == ust_pts[2].observation_date
             IN  IF ApplicableCaps(caps, obs_date) = {}
                 THEN NotAvailable(reg, QtSeries)
                 ELSE LET status == IF AtCap(ust_runoff, mbs_runoff,
                                             FirstCap(caps, obs_date))
                                    THEN -1 ELSE 0
                      IN  [row |-> [id |-> reg.indicator_id,
                                    value_numeric |-> ust_runoff + mbs_runoff,
                                    z20 |-> ZNone,
                                    status |-> StatusStr(status),
                                    provenance |-> NoProvenance(QtSeries)],
                           contribution |-> status]

\* compute_indicator_status on what the reads return (view) and the table
\* qt_caps.  The branches keyed by net_liq, ust_net_w, bill_rrp, ofr_liq_idx
\* and bill_share are not taken by the registries below.
compute_indicator_status(reg, view, caps) ==
    LET series_ids == reg.series
    IN  IF Len(series_ids) = 0 THEN NotAvailable(reg, series_ids)
        ELSE LET points == pts(view, _resolve_series_id(series_ids[1]),
                               PointsLimit)
             IN  IF Len(points) = 0 THEN NotAvailable(reg, series_ids)
                 ELSE IF reg.scoring = "threshold"
                      THEN IF reg.indicator_id = "qt_pace"
                           THEN QtPaceStatus(reg, view, caps)
                           ELSE IF reg.indicator_id = "sofr_iorb"
                                   /\ Len(series_ids) >= 2
                                THEN SofrIorbStatus(reg, series_ids, view)
                                ELSE ThresholdStatus(reg, series_ids, points)
                      ELSE ZStatus(reg, series_ids, points)

-----------------------------------------------------------------------------
(* Bucket and regime aggregation, snapshot assembly (compute_snapshot).    *)
(* regs is the registry ordered by indicator_id.                           *)

\* (a defect: the n/a rows are kept)
Evaluated_KeepNA(regs, view, caps) ==
    [i \in 1..Len(regs) |-> compute_indicator_status(regs[i], view, caps)]

\* The loop over regs: evaluate, drop the n/a rows, keep the order.
Evaluated(regs, view, caps) ==
    SelectSeq([i \in 1..Len(regs) |->
                  compute_indicator_status(regs[i], view, caps)],
              LAMBDA e : e.row.status # "n/a")

HasReg(regs, indicator_id) ==
    \E i \in 1..Len(regs) : regs[i].indicator_id = indicator_id

RegById(regs, indicator_id) ==
    regs[CHOOSE i \in 1..Len(regs) : regs[i].indicator_id = indicator_id]

\* root = duplicates_of or self
root_id(regs, indicator_id) ==
    IF ~HasReg(regs, indicator_id) THEN indicator_id
    ELSE IF RegById(regs, indicator_id).duplicates_of # NONE
         THEN RegById(regs, indicator_id).duplicates_of
         ELSE indicator_id

\* (a defect: a duplicate is also filed under its own id)
BucketAppend_AlsoOwn(buckets, rid, ind_id) ==
    LET filed == IF \E j \in 1..Len(buckets) : buckets[j].rid = rid
                 THEN [j \in 1..Len(buckets) |->
                          IF buckets[j].rid = rid
                          THEN [buckets[j] EXCEPT !.members = Append(@, ind_id)]
                          ELSE buckets[j]]
                 ELSE Append(buckets, [rid |-> rid, members |-> <<ind_id>>])
    IN  IF rid = ind_id THEN filed
        ELSE Append(filed, [rid |-> ind_id, members |-> <<ind_id>>])

\* members_by_bucket[rid].append(ind_id), a defaultdict(list) in insertion
\* order.
BucketAppend(buckets, rid, ind_id) ==
    IF \E j \in 1..Len(buckets) : buckets[j].rid = rid
    THEN [j \in 1..Len(buckets) |->
             IF buckets[j].rid = rid
             THEN [buckets[j] EXCEPT !.members = Append(@, ind_id)]
             ELSE buckets[j]]
    ELSE Append(buckets, [rid |-> rid, members |-> <<ind_id>>])

RECURSIVE MembersByBucket(_, _, _)
MembersByBucket(regs, ids, buckets) ==
    IF Len(ids) = 0 THEN buckets
    ELSE MembersByBucket(regs, Tail(ids),
                         BucketAppend(buckets, root_id(regs, Head(ids)),
                                      Head(ids)))

EvalOf(evaluated, indicator_id) ==
    evaluated[CHOOSE i \in 1..Len(evaluated) :
                 evaluated[i].row.id = indicator_id]

\* bucket_aggregate: the mean of the member contributions, as sum / n.
\* The contribution of the first member alone, in place of the mean.
BucketAggregate_FirstOnly(evaluated, members) ==
    [sum |-> EvalOf(evaluated, members[1]).contribution, n |-> 1]

BucketAggregate(evaluated, members) ==
    [sum |-> SumSeq([i \in 1..Len(members) |->
                        EvalOf(evaluated, members[i]).contribution]),
     n |-> Len(members)]

\* WEIGHTS, in tenths.
WeightTenths(category) ==
    CASE category = "core_plumbing" -> 5
      [] category = "floor" -> 3
      [] category = "supply" -> 2
      [] OTHER -> 0

BucketWeight(regs, rid) ==
    IF HasReg(regs, rid) THEN WeightTenths(RegById(regs, rid).category) ELSE 0

RECURSIVE ProdSeq(_)
ProdSeq(q) == IF Len(q) = 0 THEN 1 ELSE q[1] * ProdSeq(Tail(q))

\* score_cont as a fraction: the weighted sum over the weighted buckets, or
\* the plain sum of contributions when no bucket is weighted.
ScoreCont(regs, evaluated, buckets) ==
    LET weighted == SelectSeq(buckets,
                              LAMBDA b : BucketWeight(regs, b.rid) # 0)
        D == ProdSeq([j \in 1..Len(weighted) |-> Len(weighted[j].members)])
    IN  IF Len(weighted) > 0
        THEN [num |-> SumSeq([j \in 1..Len(weighted) |->
                         BucketWeight(regs, weighted[j].rid)
                         * BucketAggregate(evaluated, weighted[j].members).sum
                         * (D \div Len(weighted[j].members))]),
              den |-> 10 * D]
        ELSE [num |-> SumSeq([i \in 1..Len(evaluated) |->
                                 evaluated[i].contribution]),
              den |-> 1]

\* int(round(x)) of x = num/den, den > 0: to nearest, halves to even.
Round(num, den) ==
    LET fl == num \div den
        twice == 2 * (num - fl * den)
    IN  IF twice < den THEN fl
        ELSE IF twice > den THEN fl + 1
        ELSE IF fl % 2 = 0 THEN fl ELSE fl + 1

\* (a defect: the label turns at a score of 1 instead of 2)
Regime_LabelAtOne(regs, evaluated, buckets) ==
    LET score_cont == ScoreCont(regs, evaluated, buckets)
        score == Round(score_cont.num, score_cont.den)
        weighted == SelectSeq(buckets,
                              LAMBDA b : BucketWeight(regs, b.rid) # 0)
    IN  [label |-> IF score >= 1 THEN "Positive"
                   ELSE IF score <= -1 THEN "Negative" ELSE "Neutral",
         tilt |-> IF score_cont.num > 0 THEN "positive"
                  ELSE IF score_cont.num < 0 THEN "negative" ELSE "flat",
         score |-> score,
         max_score |-> IF Len(weighted) > 1 THEN Len(weighted) ELSE 1,
         score_cont |-> score_cont]

Regime(regs, evaluated, buckets) ==
    LET score_cont == ScoreCont(regs, evaluated, buckets)
        score == Round(score_cont.num, score_cont.den)
        weighted == SelectSeq(buckets,
                              LAMBDA b : BucketWeight(regs, b.rid) # 0)
    IN  [label |-> IF score >= 2 THEN "Positive"
                   ELSE IF score <= -2 THEN "Negative" ELSE "Neutral",
         tilt |-> IF score_cont.num > 0 THEN "positive"
                  ELSE IF score_cont.num < 0 THEN "negative" ELSE "flat",
         score |-> score,
         max_score |-> IF Len(weighted) > 1 THEN Len(weighted) ELSE 1,
         score_cont |-> score_cont]

\* (a defect: among the members with the largest |z| the last one wins)
Representative_LastMax(evaluated, members) ==
    LET z(i) == EvalOf(evaluated, members[i]).row.z20
        best == CHOOSE i \in 1..Len(members) :
                   /\ \A j \in 1..Len(members) : ~ZAbsLess(z(i), z(j))
                   /\ \A j \in (i + 1)..Len(members) : ZAbsLess(z(j), z(i))
    IN  members[best]

\* max(members, key=lambda mid: z_by_id.get(mid, 0.0)): the first member
\* with the largest |z| (an undefined z counts as 0).
Representative(evaluated, members) ==
    LET z(i) == EvalOf(evaluated, members[i]).row.z20
        best == CHOOSE i \in 1..Len(members) :
                   /\ \A j \in 1..Len(members) : ~ZAbsLess(z(i), z(j))
                   /\ \A j \in 1..(i - 1) : ZAbsLess(z(j), z(i))
    IN  members[best]

\* sorted(reps, key=z_abs, reverse=True): descending and stable.
SortedByZ(rows) ==
    LET n == Len(rows)
        rank(i) == Cardinality({j \in 1..n :
                      \/ ZAbsLess(rows[i].z20, rows[j].z20)
                      \/ /\ ~ZAbsLess(rows[j].z20, rows[i].z20)
                         /\ j < i}) + 1
    IN  [p \in 1..n |-> rows[CHOOSE i \in 1..n : rank(i) = p]]

\* (a defect: the flag compares with the bucket root, not the representative)
MemberFlags_Root(mid, rid, rep_id) ==
    [is_root |-> mid = rid, is_representative |-> mid = rid]

\* is_root and is_representative of a member object.
MemberFlags(mid, rid, rep_id) ==
    [is_root |-> mid = rid, is_representative |-> mid = rep_id]

BucketDetail(regs, evaluated, b) ==
    LET agg == BucketAggregate(evaluated, b.members)
        rep_id == Representative(evaluated, b.members)
    IN  [bucket_id |-> b.rid,
         category |-> IF HasReg(regs, b.rid)
                      THEN RegById(regs, b.rid).category ELSE NONE,
         weight |-> BucketWeight(regs, b.rid),
         aggregate_status |-> StatusStr(agg.sum),
         representative_id |-> rep_id,
         members |-> [i \in 1..Len(b.members) |->
             LET mid == b.members[i]
                 f == MemberFlags(mid, b.rid, rep_id)
             IN  [id |-> mid,
                  status |-> StatusStr(EvalOf(evaluated, mid).contribution),
                  z20 |-> EvalOf(evaluated, mid).row.z20,
                  is_root |-> f.is_root,
                  is_representative |-> f.is_representative]]]

RECURSIVE Flatten(_)
Flatten(qq) == IF Len(qq) = 0 THEN <<>> ELSE Head(qq) \o Flatten(Tail(qq))

\* frozen_items: one item per series of each row of the evidence list.
FrozenItems(indicators_sorted) ==
    Flatten([i \in 1..Len(indicators_sorted) |->
        LET row == indicators_sorted[i]
        IN  [j \in 1..Len(row.provenance.series) |->
                [indicator_id |-> row.id,
                 series_id |-> row.provenance.series[j],
                 vintage_id |-> row.provenance.vintage_id,
                 observation_date |-> row.provenance.observation_date]]])

\* F applied to the value of x: x is evaluated once, as a Python local is.
With(x, F(_)) == CHOOSE r \in {F(v) : v \in {x}} : TRUE

\* compute_snapshot up to the save: the response and what a save persists.
compute_snapshot(regs, view, caps, horizon, k, as_of_now) ==
    With(Evaluated(regs, view, caps), LAMBDA evaluated :
    With(MembersByBucket(regs,
                         [i \in 1..Len(evaluated) |-> evaluated[i].row.id],
                         <<>>), LAMBDA buckets :
    With([j \in 1..Len(buckets) |->
             EvalOf(evaluated,
                    Representative(evaluated, buckets[j].members)).row],
         LAMBDA reps :
    With(FirstN(SortedByZ(reps), IF Len(reps) < k THEN Len(reps) ELSE k),
         LAMBDA indicators_sorted :
        [as_of |-> as_of_now,
         horizon |-> horizon,
         regime |-> Regime(regs, evaluated, buckets),
         indicators |-> indicators_sorted,
         bucket_details |-> [j \in 1..Len(buckets) |->
                                BucketDetail(regs, evaluated, buckets[j])],
         evaluated |-> [i \in 1..Len(evaluated) |-> evaluated[i].row],
         frozen_items |-> FrozenItems(indicators_sorted)]))))

\* The (reg, abs z) rows of compute_router: the indicators with a declared
\* series that has points, read without as_of and without the RRP alias.
RouterRows(regs, view) ==
    LET kept == SelectSeq(regs, LAMBDA reg :
                    /\ Len(reg.series) > 0
                    /\ Len(pts(view, reg.series[1], PointsLimit)) > 0)
    IN  [i \in 1..Len(kept) |->
            [id |-> kept[i].indicator_id,
             trigger |-> kept[i].trigger_default,
             z20 |-> compute_z_from_points(
                         pts(view, kept[i].series[1], PointsLimit), Window)]]

compute_router(regs, view, horizon, k) ==
    With(SortedByZ(RouterRows(regs, view)), LAMBDA rows :
        [horizon |-> horizon,
         picks |-> [i \in 1..(IF Len(rows) < k THEN Len(rows) ELSE k) |->
                       [id |-> rows[i].id, trigger |-> rows[i].trigger]]])

-----------------------------------------------------------------------------
(* Registries and stores the snapshot service is run on.                   *)

EvalSeries == {"X", "Y"}
Horizons == {"1w", "1m"}
TopK == {1, 2}
Modes == {"fetched", "pub", "obs"}

\* Values of a series on observation dates 1, 2, ..., each fetched on its
\* observation date.
Profiles == {<<>>, <<1, 1, 1>>, <<1, 2, 4>>, <<4, 2, 1>>}

ProfileRows(sid, profile) ==
    {[vintage_id |-> NULL, series_id |-> sid, observation_date |-> i,
      vintage_date |-> NULL, publication_date |-> NULL,
      fetched_at |-> i * TicksPerDay, value_numeric |-> profile[i],
      scale |-> 1] : i \in 1..Len(profile)}

EvalStore(px, py) == Numbered(ProfileRows("X", px) \cup ProfileRows("Y", py), 1)

\* Request times: the start and the end of the days 2 and 3.
RequestTimes ==
    {d * TicksPerDay + u : d \in {2, 3}, u \in {0, TicksPerDay - 1}}

\* Offsets from UTC, in ticks, of the as_of a client sends.
Offsets == {0, -1}

\* An aware datetime: an instant and the offset it is written in.
UtcNow(t) == [instant |-> t, offset |-> 0]

\* as_of omitted (None).
NoAsOf == [instant |-> NULL, offset |-> 0]

\* The :as_of parameter of the reads, compared as an instant.
ReadAsOf(dt) == dt.instant

\* A row of indicator_registry.
Reg(id, sid, category, scoring, persistence, dup) ==
    [indicator_id |-> id, series |-> <<sid>>, category |-> category,
     directionality |-> "higher_is_supportive", scoring |-> scoring,
     z_cutoff |-> 1, persistence |-> persistence,
     trigger_default |-> <<Cmp(">"), Num(1)>>, duplicates_of |-> dup]

\* Registries of three indicators, in indicator_id order, with every
\* duplicates_of forest over them (chains included).
Registries ==
    {<<Reg("a1", s1, "floor", "z", 1, d1),
       Reg("a2", s2, "supply", sc2, 1, d2),
       Reg("root_a", "X", c3, "z", 1, NONE)>> :
        s1 \in EvalSeries, s2 \in EvalSeries,
        c3 \in {"core_plumbing", "stress"}, sc2 \in {"z", "threshold"},
        d1 \in {NONE, "a2", "root_a"}, d2 \in {NONE, "root_a"}}

\* The list every pts() call of one computation gets, per series.
Views(rows, as_of, as_of_mode) ==
    {[sid \in EvalSeries |-> IF sid = "X" THEN vx ELSE vy] :
        vx \in ReadResults(PtsPath(as_of, as_of_mode), rows, "X", as_of,
                           PointsLimit),
        vy \in ReadResults(PtsPath(as_of, as_of_mode), rows, "Y", as_of,
                           PointsLimit)}

-----------------------------------------------------------------------------
(* Specification of one snapshot computation on a registry and a store.    *)

InitEval ==
    /\ \E px \in Profiles, py \in Profiles :
          /\ store = EvalStore(px, py)
          /\ nextId = Len(px) + Len(py) + 1
    /\ result = NoRead
    /\ registry \in Registries
    /\ response = NoResponse
    /\ snapshots = {}
    /\ nextSnap = 1
    /\ req = [p \in Procs |-> Idle]
    /\ qt_caps = {}
    /\ evaluation = NoEvaluation
    /\ router = NoRouter
    /\ tool = NoTool
    /\ AgentIdle
    /\ IngestIdle
    /\ BriefIdle

\* The response of one compute_snapshot call (GET /snapshot calls it with
\* the mode "fetched", the event endpoints with any mode).
ComputeSnapshot(horizon, k, as_of, as_of_mode, now) ==
    /\ \E view \in Views(store, ReadAsOf(as_of), as_of_mode) :
          response' = compute_snapshot(registry, view, qt_caps, horizon, k,
                                       IF as_of = NoAsOf THEN UtcNow(now)
                                       ELSE as_of)
    /\ UNCHANGED <<storeVars, registry, snapshots, nextSnap, req, evalVars>>

NextEval ==
    /\ response = NoResponse
    /\ \E horizon \in Horizons, k \in TopK, as_of_mode \in Modes,
          now \in RequestTimes :
          \E as_of \in {UtcNow(now), NoAsOf} :
              ComputeSnapshot(horizon, k, as_of, as_of_mode, now)

SpecEval == InitEval /\ [][NextEval]_vars

-----------------------------------------------------------------------------
(* Snapshot persistence and the event endpoints (api/routers/events.py).   *)
(* A step is one database transaction.                                     *)

MaxSnapshots == 2     \* snapshots rows inserted in one behaviour
MaxDays == 1          \* the days parameter of a backfill

\* target_dt.date(): the calendar date of a datetime in its own offset.
LocalDate(dt) == DateOf(dt.instant + dt.offset)

\* What a timestamp-without-time-zone column keeps of an aware datetime:
\* the wall clock of the instant in the session time zone (UTC).
StoredTimestamp(dt) == dt.instant

\* DELETE FROM snapshots WHERE horizon = :h AND DATE(as_of) = :d
DeleteDay(rows, horizon, d) ==
    {s \in rows : ~(s.horizon = horizon /\ DateOf(s.as_of) = d)}

\* (a defect: only the rows of the evidence list are persisted)
SnapshotRow_TopKOnly(id, resp) ==
    [snapshot_id |-> id,
     as_of |-> StoredTimestamp(resp.as_of),
     horizon |-> resp.horizon,
     regime_label |-> resp.regime.label,
     tilt |-> resp.regime.tilt,
     score |-> resp.regime.score,
     max_score |-> resp.regime.max_score,
     frozen_inputs |-> resp.frozen_items,
     indicators |-> resp.indicators]

\* The Snapshot row with its FrozenInputs and SnapshotIndicator rows.
SnapshotRow(id, resp) ==
    [snapshot_id |-> id,
     as_of |-> StoredTimestamp(resp.as_of),
     horizon |-> resp.horizon,
     regime_label |-> resp.regime.label,
     tilt |-> resp.regime.tilt,
     score |-> resp.regime.score,
     max_score |-> resp.regime.max_score,
     frozen_inputs |-> resp.frozen_items,
     indicators |-> resp.evaluated]

\* The snapshot_indicators row of a snapshot for an indicator.
PersistedIndicator(s, indicator_id) ==
    s.indicators[CHOOSE i \in 1..Len(s.indicators) :
                    s.indicators[i].id = indicator_id]

\* Saves still to come from the requests in flight.
Remaining(r) == IF r.pc \in {"save", "delete"} THEN r.i + 1 ELSE 0

RECURSIVE RemainingOf(_)
RemainingOf(P) ==
    IF P = {} THEN 0
    ELSE LET p == CHOOSE q \in P : TRUE
         IN  Remaining(req[p]) + RemainingOf(P \ {p})

Room(n) == (nextSnap - 1) + RemainingOf(Procs) + n <= MaxSnapshots

\* as_of_dt = (now - i days) at 23:59:59
BackfillAsOf(now, i) ==
    UtcNow((DateOf(now) - i) * TicksPerDay + TicksPerDay - 1)

\* POST /events/recompute up to the commit of the delete.
RecomputeBegin(p, horizon, k, as_of, as_of_mode, now) ==
    /\ req[p].pc \in {"idle", "done"}
    /\ Room(1)
    /\ LET target_dt == IF as_of = NoAsOf THEN UtcNow(now) ELSE as_of
       IN  snapshots' = DeleteDay(snapshots, horizon, LocalDate(target_dt))
    /\ req' = [req EXCEPT ![p] =
                  [pc |-> "save", kind |-> "recompute", horizon |-> horizon,
                   k |-> k, as_of |-> as_of, as_of_mode |-> as_of_mode,
                   i |-> 0, now |-> now]]
    /\ UNCHANGED <<storeVars, registry, response, nextSnap, evalVars>>

\* POST /events/backfill_history up to the commit of the first delete.
BackfillBegin(p, horizon, days, k, as_of_mode, now) ==
    /\ req[p].pc \in {"idle", "done"}
    /\ Room(days + 1)
    /\ snapshots' = DeleteDay(snapshots, horizon,
                              LocalDate(BackfillAsOf(now, days)))
    /\ req' = [req EXCEPT ![p] =
                  [pc |-> "save", kind |-> "backfill", horizon |-> horizon,
                   k |-> k, as_of |-> BackfillAsOf(now, days),
                   as_of_mode |-> as_of_mode, i |-> days, now |-> now]]
    /\ UNCHANGED <<storeVars, registry, response, nextSnap, evalVars>>

\* The delete of the next day of a backfill.
BackfillNext(p) ==
    /\ req[p].pc = "delete"
    /\ LET r == req[p]
           as_of_dt == BackfillAsOf(r.now, r.i)
       IN  /\ snapshots' = DeleteDay(snapshots, r.horizon, LocalDate(as_of_dt))
           /\ req' = [req EXCEPT ![p] =
                         [r EXCEPT !.pc = "save", !.as_of = as_of_dt]]
    /\ UNCHANGED <<storeVars, registry, response, nextSnap, evalVars>>

\* What a worker keeps of a request it has answered.
Done(r) ==
    [pc |-> "done", kind |-> r.kind, horizon |-> r.horizon, as_of |-> r.as_of]

\* compute_snapshot(save=True): evaluate, insert the rows, commit.
Save(p) ==
    /\ req[p].pc = "save"
    /\ LET r == req[p]
       IN  \E now \in IF r.as_of = NoAsOf
                      THEN {t \in RequestTimes : t >= r.now} ELSE {r.now} :
           \E view \in Views(store, ReadAsOf(r.as_of), r.as_of_mode) :
               LET resp == compute_snapshot(registry, view, qt_caps,
                               r.horizon, r.k,
                               IF r.as_of = NoAsOf THEN UtcNow(now)
                               ELSE r.as_of)
               IN  /\ snapshots' = snapshots \cup {SnapshotRow(nextSnap, resp)}
                   /\ nextSnap' = nextSnap + 1
                   /\ req' = [req EXCEPT ![p] =
                                 IF r.kind = "backfill" /\ r.i > 0
                                 THEN [r EXCEPT !.pc = "delete", !.i = r.i - 1]
                                 ELSE Done(r)]
    /\ UNCHANGED <<storeVars, registry, response, evalVars>>

\* The registries and stores the event endpoints are run on.
EventRegistries ==
    {R \in Registries :
        /\ R[1].series = <<"X">> /\ R[2].series = <<"Y">>
        /\ R[1].duplicates_of = "root_a"
        /\ R[3].category = "core_plumbing"}

InitEvents ==
    /\ \E py \in {<<>>, <<4, 2, 1>>} :
          /\ store = EvalStore(<<1, 2, 4>>, py)
          /\ nextId = 3 + Len(py) + 1
    /\ result = NoRead
    /\ registry \in EventRegistries
    /\ response = NoResponse
    /\ snapshots = {}
    /\ nextSnap = 1
    /\ req = [p \in Procs |-> Idle]
    /\ qt_caps = {}
    /\ evaluation = NoEvaluation
    /\ router = NoRouter
    /\ tool = NoTool
    /\ AgentIdle
    /\ IngestIdle
    /\ BriefIdle

Events(P, ks, modes) ==
    \E p \in P :
        \/ \E horizon \in Horizons, k \in ks, as_of_mode \in modes,
              now \in RequestTimes :
              \E as_of \in {NoAsOf} \cup {[instant |-> now, offset |-> o] :
                                           o \in Offsets} :
                  RecomputeBegin(p, horizon, k, as_of, as_of_mode, now)
        \/ \E horizon \in Horizons, days \in 0..MaxDays, k \in ks,
              as_of_mode \in modes, now \in RequestTimes :
              BackfillBegin(p, horizon, days, k, as_of_mode, now)
        \/ BackfillNext(p)
        \/ Save(p)

\* Requests one after another: a single worker.
NextSeq == Events({1}, TopK, Modes)

SpecSeq == InitEvents /\ [][NextSeq]_vars

\* Requests served concurrently by the workers, with the default mode of
\* a backfill and one k.
NextConc == Events(Procs, {2}, {"obs"})

SpecConc == InitEvents /\ [][NextConc]_vars

-----------------------------------------------------------------------------
(* Specification of one evaluation of one indicator: a registry of one     *)
(* row, the series it reads and the table qt_caps.                         *)

MaxZLen == 7          \* observations of a z-scored series
MaxThrLen == 4        \* observations of a threshold series
MaxSpreadDates == 3   \* observation dates of SOFR and IORB
MaxQtLen == 3         \* weekly observations of WSHOSHO and WSHOMCB

IndSeries == {"X", "SOFR", "IORB", "WSHOSHO", "WSHOMCB"}
Directions ==
    {"higher_is_supportive", "lower_is_supportive", "higher_is_draining"}
Persistences == {NULL, 1, 2, 3}
ZCutoffs == {NULL, 0, 1, 2}

ProfilesUpTo(n, V) == UNION {[1..m -> V] : m \in 0..n}

\* Rows of sid with the value by_date[d] on date d, none where it is NULL.
SparseRows(sid, by_date) ==
    {[vintage_id |-> NULL, series_id |-> sid, observation_date |-> d,
      vintage_date |-> NULL, publication_date |-> NULL,
      fetched_at |-> d * TicksPerDay, value_numeric |-> by_date[d],
      scale |-> 1] : d \in {e \in DOMAIN by_date : by_date[e] # NULL}}

Triggers ==
    {<<>>, <<Txt>>, <<Cmp(">"), Num(1)>>, <<Cmp(">="), Num(2)>>,
     <<Cmp("<"), Num(2)>>, <<Cmp("<="), Num(1)>>,
     <<Txt, Cmp(">"), Num(1), Txt>>, <<Cmp(">"), Txt>>,
     <<Cmp("<"), Txt, Cmp(">="), Num(2)>>}

IndReg(id, series, scoring, dir, z_cutoff, persistence, trigger_default) ==
    [indicator_id |-> id, series |-> series, category |-> "floor",
     directionality |-> dir, scoring |-> scoring,
     z_cutoff |-> z_cutoff, persistence |-> persistence,
     trigger_default |-> trigger_default, duplicates_of |-> NONE]

\* Rows of table qt_caps; effective_date is the primary key.
CapTables ==
    {{c \in {c2, c3} : c.effective_date # NULL} :
        c2 \in {[effective_date |-> e, ust_cap_usd_week |-> u,
                 mbs_cap_usd_week |-> m] :
                    e \in {NULL, 2}, u \in {2, 3}, m \in {2, 3}},
        c3 \in {[effective_date |-> e, ust_cap_usd_week |-> u,
                 mbs_cap_usd_week |-> m] :
                    e \in {NULL, 3}, u \in {2, 3}, m \in {2, 3}}}

\* The list every pts() call of one evaluation gets, per series of S.
RECURSIVE ViewsOver(_, _, _, _)
ViewsOver(S, rows, as_of, as_of_mode) ==
    IF S = {} THEN {<<>>}
    ELSE LET sid == CHOOSE x \in S : TRUE
         IN  {(sid :> v) @@ f :
                 v \in ReadResults(PtsPath(as_of, as_of_mode), rows, sid,
                                   as_of, SpreadLimit),
                 f \in ViewsOver(S \ {sid}, rows, as_of, as_of_mode)}

ZScored ==
    \E profile \in ProfilesUpTo(MaxZLen, {1, 2}), dir \in Directions,
       c \in ZCutoffs, P \in Persistences :
        /\ store = Numbered(ProfileRows("X", profile), 1)
        /\ registry = <<IndReg("a1", <<"X">>, "z", dir, c, P, <<>>)>>
        /\ qt_caps = {}

Thresholded ==
    \E profile \in ProfilesUpTo(MaxThrLen, {1, 2}), dir \in Directions,
       P \in Persistences, trigger \in Triggers :
        /\ store = Numbered(ProfileRows("X", profile), 1)
        /\ registry = <<IndReg("a2", <<"X">>, "threshold", dir, NULL, P,
                               trigger)>>
        /\ qt_caps = {}

Spread ==
    \E sofr \in [1..MaxSpreadDates -> {NULL, 1, 2}],
       iorb \in [1..MaxSpreadDates -> {NULL, 1}],
       dir \in {"higher_is_draining", "higher_is_supportive"},
       P \in Persistences :
        /\ store = Numbered(SparseRows("SOFR", sofr)
                            \cup SparseRows("IORB", iorb), 1)
        /\ registry = <<IndReg("sofr_iorb", <<"SOFR", "IORB">>, "threshold",
                               dir, NULL, P, <<Cmp(">"), Num(0), Txt>>)>>
        /\ qt_caps = {}

QtPace ==
    \E ust \in ProfilesUpTo(MaxQtLen, {1, 3}),
       mbs \in ProfilesUpTo(MaxQtLen, {1, 3}), caps \in CapTables :
        /\ store = Numbered(ProfileRows("WSHOSHO", ust)
                            \cup ProfileRows("WSHOMCB", mbs), 1)
        /\ registry = <<IndReg("qt_pace", QtSeries, "threshold",
                               "higher_is_draining", NULL, 1, <<>>)>>
        /\ qt_caps = caps

NoSeries ==
    \E profile \in ProfilesUpTo(1, {1, 2}),
       scoring \in {"z", "threshold"} :
        /\ store = Numbered(ProfileRows("X", profile), 1)
        /\ registry = <<IndReg("a1", <<>>, scoring, "higher_is_supportive",
                               NULL, 1, <<>>)>>
        /\ qt_caps = {}

InitInd ==
    /\ ZScored \/ Thresholded \/ Spread \/ QtPace \/ NoSeries
    /\ nextId = Cardinality(store) + 1
    /\ result = NoRead
    /\ response = NoResponse
    /\ snapshots = {}
    /\ nextSnap = 1
    /\ req = [p \in Procs |-> Idle]
    /\ evaluation = NoEvaluation
    /\ router = NoRouter
    /\ tool = NoTool
    /\ AgentIdle
    /\ IngestIdle
    /\ BriefIdle

\* One call of compute_indicator_status without as_of.
EvaluateIndicator ==
    /\ evaluation = NoEvaluation
    /\ \E view \in ViewsOver(IndSeries, store, NULL, "fetched") :
          evaluation' = compute_indicator_status(registry[1], view, qt_caps)
    /\ UNCHANGED <<storeVars, registry, response, snapshots, nextSnap, req,
                   qt_caps, router, tool, agentVars, ingestVars, briefVars>>

NextInd == EvaluateIndicator

SpecInd == InitInd /\ [][NextInd]_vars

-----------------------------------------------------------------------------
(* Specification of a snapshot and a router computation on registries with *)
(* indicators that lack a series or lack data at the requested as_of.      *)

\* Series X is observed from date 1, series Y from date 3.
MissingStores ==
    {Numbered(ProfileRows("X", px) \cup SparseRows("Y", py), 1) :
        px \in {<<>>, <<1, 2, 4>>, <<1, 1, 1>>},
        py \in {<<NULL, NULL, NULL>>, <<NULL, NULL, 4, 2, 1>>}}

MissingRegistries ==
    {<<[Reg("a1", "X", "floor", "z", 1, d1) EXCEPT !.series = s1],
       [Reg("a2", "X", "supply", "z", 1, d2) EXCEPT !.series = s2],
       [Reg("root_a", "X", c3, "z", 1, NONE) EXCEPT !.series = s3]>> :
        s1 \in {<<>>, <<"X">>, <<"Y">>}, s2 \in {<<>>, <<"X">>, <<"Y">>},
        s3 \in {<<"X">>, <<"Y">>}, c3 \in {"core_plumbing", "stress"},
        d1 \in {NONE, "root_a"}, d2 \in {NONE, "root_a"}}

\* as_of before every fetch, between the first fetches of X and of Y, and
\* after every fetch.
AsOfTimes == {1, 2 * TicksPerDay, 5 * TicksPerDay}

InitMissing ==
    /\ store \in MissingStores
    /\ nextId = Cardinality(store) + 1
    /\ result = NoRead
    /\ registry \in MissingRegistries
    /\ response = NoResponse
    /\ snapshots = {}
    /\ nextSnap = 1
    /\ req = [p \in Procs |-> Idle]
    /\ qt_caps = {}
    /\ evaluation = NoEvaluation
    /\ router = NoRouter
    /\ tool = NoTool
    /\ AgentIdle
    /\ IngestIdle
    /\ BriefIdle

\* compute_snapshot for an as_of and a mode; req[1] keeps the request.
SnapshotAsOf(horizon, k, as_of, as_of_mode, now) ==
    /\ response = NoResponse
    /\ \E view \in Views(store, ReadAsOf(as_of), as_of_mode) :
          response' = compute_snapshot(registry, view, qt_caps, horizon, k,
                                       IF as_of = NoAsOf THEN UtcNow(now)
                                       ELSE as_of)
    /\ req' = [req EXCEPT ![1] = [pc |-> "served", as_of |-> as_of,
                                  as_of_mode |-> as_of_mode]]
    /\ UNCHANGED <<storeVars, registry, snapshots, nextSnap, evalVars>>

\* GET /router: compute_router on the latest points.
Router(horizon, k) ==
    /\ router = NoRouter
    /\ \E view \in Views(store, NULL, "fetched") :
          router' = compute_router(registry, view, horizon, k)
    /\ UNCHANGED <<storeVars, registry, response, snapshots, nextSnap, req,
                   qt_caps, evaluation, tool, agentVars, ingestVars,
                   briefVars>>

NextMissing ==
    \/ \E k \in TopK, as_of_mode \in Modes,
          as_of \in {NoAsOf} \cup {UtcNow(t) : t \in AsOfTimes} :
          SnapshotAsOf("1w", k, as_of, as_of_mode, 5 * TicksPerDay)
    \/ \E k \in TopK : Router("1w", k)

SpecMissing == InitMissing /\ [][NextMissing]_vars

-----------------------------------------------------------------------------
(* The agent tools (app/llm/orchestrator.py, _execute_tool).  tool.cache   *)
(* is the in-memory cache _TOOL_CACHE["indicator_history"], tool.now the   *)
(* clock of the process.                                                   *)

MaxClock == 1         \* ticks the process clock advances in one behaviour
CacheTTL == 1         \* _TTL_SECONDS["indicator_history"], in ticks
HistoryMaxPoints == 20

ToolError == [error |-> TRUE]

\* An absent argument of a tool call.
Absent == "absent"

\* (a defect: an entry is still served at its expiry)
CacheHit_AtExpiry(cache, key, now) ==
    {e \in cache : e.key = key /\ e.exp >= now}

\* _cache_get: the entry of key, if it has not expired.
CacheHit(cache, key, now) == {e \in cache : e.key = key /\ e.exp > now}

\* _cache_get deletes an expired entry of key; _cache_set replaces the one
\* of key.
CacheSet(cache, key, val, now) ==
    {e \in cache : e.key # key} \cup
        {[key |-> key, val |-> val, exp |-> now + CacheTTL]}

\* The rows of the join of snapshots and snapshot_indicators for one
\* indicator and horizon, not older than cut.
HistoryRows(S, indicator_id, horizon, cut) ==
    {[as_of |-> x.as_of,
      value_numeric |-> PersistedIndicator(x, indicator_id).value_numeric,
      z20 |-> PersistedIndicator(x, indicator_id).z20,
      status |-> PersistedIndicator(x, indicator_id).status] :
        x \in {y \in S :
                 /\ y.horizon = horizon
                 /\ cut # NULL => y.as_of >= cut
                 /\ \E i \in 1..Len(y.indicators) :
                       y.indicators[i].id = indicator_id}}

\* ORDER BY s.as_of ASC: every order the database may return the rows in.
OrderedByAsOf(R) ==
    {q \in [1..Cardinality(R) -> R] :
        /\ \A i, j \in 1..Cardinality(R) : q[i] = q[j] => i = j
        /\ \A i, j \in 1..Cardinality(R) : i < j => q[i].as_of <= q[j].as_of}

\* _get_indicator_history: the last max_points items.
IndicatorHistories(S, indicator_id, horizon, days, now) ==
    {LastN(q, HistoryMaxPoints) :
        q \in OrderedByAsOf(HistoryRows(S, indicator_id, horizon,
                  IF days > 0 THEN now - days * TicksPerDay ELSE NULL))}

\* capped = max(6, min(int(limit or 20), 60))
Capped(limit) ==
    LET l == IF limit = 0 THEN 20 ELSE limit
        m == IF l < 60 THEN l ELSE 60
    IN  IF m > 6 THEN m ELSE 6

\* _get_series_history on the list the latest read returns.
SeriesHistory(points) ==
    [i \in 1..Len(points) |->
        [observation_date |-> points[i].observation_date,
         value_numeric |-> points[i].value_numeric,
         scale |-> points[i].scale]]

\* get_indicator_doc, get_series_doc: the text filed under id in
\* docs/indicator-registry.md.
Doc(kind, id) == [kind |-> kind, id |-> id]

\* (a defect: the tool saves the snapshot it computes)
ToolSave_True == TRUE

\* The save parameter of compute_snapshot as _execute_tool calls it: left
\* to its default.
ToolSave == FALSE

ToolHorizons == {"1w"}
ToolTimes == {5 * TicksPerDay + c : c \in 0..MaxClock}
NowFrom(t) == IF t = NULL THEN ToolTimes ELSE {u \in ToolTimes : u >= t}

ToolReturns(name, val, cache, now) ==
    tool' = [name |-> name, result |-> val, cache |-> cache, now |-> now]

TablesUnchanged ==
    UNCHANGED <<store, nextId, registry, snapshots, nextSnap, qt_caps>>
ToolFrame ==
    UNCHANGED <<result, response, req, evaluation, router, agentVars,
                ingestVars, briefVars>>

GetSnapshotTool(horizon, k) ==
    /\ \E now \in NowFrom(tool.now) :
       \E view \in Views(store, NULL, "fetched") :
          LET resp == compute_snapshot(registry, view, qt_caps, horizon, k,
                                       UtcNow(now))
          IN  /\ ToolReturns("get_snapshot", resp, tool.cache, now)
              /\ snapshots' = IF ToolSave
                              THEN snapshots \cup {SnapshotRow(nextSnap, resp)}
                              ELSE snapshots
              /\ nextSnap' = IF ToolSave THEN nextSnap + 1 ELSE nextSnap
    /\ UNCHANGED <<store, nextId, registry, qt_caps>>
    /\ ToolFrame

GetRouterTool(horizon, k) ==
    /\ \E now \in NowFrom(tool.now) :
       \E view \in Views(store, NULL, "fetched") :
          ToolReturns("get_router", compute_router(registry, view, horizon, k),
                    tool.cache, now)
    /\ TablesUnchanged
    /\ ToolFrame

\* args["indicator_id"] raises KeyError when the argument is absent.
GetIndicatorHistoryTool(indicator_id, horizon, days) ==
    /\ \E now \in NowFrom(tool.now) :
          IF indicator_id = Absent
          THEN ToolReturns("get_indicator_history", ToolError, tool.cache, now)
          ELSE LET key == <<indicator_id, horizon, days>>
               IN  IF CacheHit(tool.cache, key, now) # {}
                   THEN \E e \in CacheHit(tool.cache, key, now) :
                           ToolReturns("get_indicator_history", e.val,
                                     tool.cache, now)
                   ELSE \E val \in IndicatorHistories(snapshots, indicator_id,
                                                      horizon, days, now) :
                           ToolReturns("get_indicator_history", val,
                                     CacheSet(tool.cache, key, val, now), now)
    /\ TablesUnchanged
    /\ ToolFrame

GetSeriesHistoryTool(series_id, limit) ==
    /\ \E now \in NowFrom(tool.now) :
          IF series_id = Absent
          THEN ToolReturns("get_series_history", ToolError, tool.cache, now)
          ELSE \E points \in ReadResults("latest_points", store, series_id,
                                         NULL, Capped(limit)) :
                  ToolReturns("get_series_history", SeriesHistory(points),
                            tool.cache, now)
    /\ TablesUnchanged
    /\ ToolFrame

\* args["id"] raises KeyError when the argument is absent.
GetDocTool(name, id) ==
    /\ \E now \in NowFrom(tool.now) :
          ToolReturns(name, IF id = Absent THEN ToolError ELSE Doc(name, id),
                    tool.cache, now)
    /\ TablesUnchanged
    /\ ToolFrame

UnknownTool(name) ==
    /\ \E now \in NowFrom(tool.now) :
          ToolReturns(name, ToolError, tool.cache, now)
    /\ TablesUnchanged
    /\ ToolFrame

\* A snapshot saved earlier at time t for the registry and the store.
SavedAt(id, regs, rows, horizon, t) ==
    SnapshotRow(id, compute_snapshot(regs,
                        CHOOSE view \in Views(rows, NULL, "fetched") : TRUE,
                        {}, horizon, 2, UtcNow(t)))

InitTools ==
    /\ \E py \in {<<>>, <<4, 2, 1>>} :
          /\ store = EvalStore(<<1, 2, 4>>, py)
          /\ nextId = 3 + Len(py) + 1
    /\ registry \in {R \in EventRegistries : R[2].scoring = "z"}
    /\ \E n \in 0..2 :
          /\ snapshots = {SavedAt(i, registry, store, "1w",
                                  (5 - i) * TicksPerDay) : i \in 1..n}
          /\ nextSnap = n + 1
    /\ qt_caps = {[effective_date |-> 1, ust_cap_usd_week |-> 2,
                     mbs_cap_usd_week |-> 2]}
    /\ result = NoRead
    /\ response = NoResponse
    /\ req = [p \in Procs |-> Idle]
    /\ evaluation = NoEvaluation
    /\ router = NoRouter
    /\ tool = NoTool
    /\ AgentIdle
    /\ IngestIdle
    /\ BriefIdle

NextTools ==
    \/ \E horizon \in ToolHorizons, k \in TopK : GetSnapshotTool(horizon, k)
    \/ \E horizon \in ToolHorizons, k \in TopK : GetRouterTool(horizon, k)
    \/ \E indicator_id \in {Absent, "a1"}, horizon \in ToolHorizons,
          days \in {0, 1} :
          GetIndicatorHistoryTool(indicator_id, horizon, days)
    \/ \E series_id \in {Absent, "X"}, limit \in {0, 2} :
          GetSeriesHistoryTool(series_id, limit)
    \/ \E id \in {Absent, "a1"} : GetDocTool("get_indicator_doc", id)
    \/ \E id \in {Absent, "X"} : GetDocTool("get_series_doc", id)
    \/ UnknownTool("drop_tables")

SpecTools == InitTools /\ [][NextTools]_vars

-----------------------------------------------------------------------------
(* Claims about the series store.                                          *)

\* The value the last row of the batch with the key of rows[i] carries.
LastValueForKey(rows, i) ==
    LET same == {j \in 1..Len(rows) :
                    /\ rows[j].observation_date = rows[i].observation_date
                    /\ rows[j].vintage_date = rows[i].vintage_date
                    /\ rows[j].publication_date = rows[i].publication_date}
    IN  rows[Max(same)].value_numeric

\* C1: after an UpsertPoints call (also one whose rows list repeats a key)
\* the store holds exactly one row for each key of the call, NULL key
\* columns comparing equal, and that row carries the value written last
\* for the key.
C1_UpsertOneRowPerKeyLastValue ==
    [][\A sid \in Series, fa \in Times, scale \in Scales :
         \A rows \in Batches(fa) :
            UpsertPoints(sid, rows, scale) =>
               \A i \in 1..Len(rows) :
                  LET K == {e \in store' : KeyMatch(e, sid, rows[i])}
                  IN  /\ Cardinality(K) = 1
                      /\ \A e \in K :
                            e.value_numeric = LastValueForKey(rows, i)
      ]_storeVars

ValuesAt(rows, d) ==
    {rows[i].value_numeric : i \in {j \in 1..Len(rows) :
                                        rows[j].observation_date = d}}

\* C2: when the store holds a first vintage of an observation (fetched at
\* t0, value v0, NULL vintage_date and publication_date) and a revised
\* vintage of the same observation fetched at t1 > t0 with value v1 is
\* upserted, the latest read returns v1 and the as-of read at t0 returns v0.
C2_AsOfReadKeepsFirstVintage ==
    [][\A sid \in Series, t1 \in Times, scale \in Scales :
         \A rows \in Batches(t1) :
            \A e \in store :
               ( /\ Len(rows) = 1
                 /\ rows[1].vintage_date = NULL
                 /\ rows[1].publication_date = NULL
                 /\ {x \in store : x.series_id = sid /\
                        x.observation_date = rows[1].observation_date} = {e}
                 /\ KeyMatch(e, sid, rows[1])
                 /\ e.fetched_at < t1
                 /\ UpsertPoints(sid, rows, scale) )
               =>
               ( /\ \A res \in ReadResults("latest_values", store', sid,
                                             NULL, 0) :
                        ValuesAt(res, e.observation_date)
                           = {rows[1].value_numeric}
                 /\ \A res \in ReadResults("as_of_values", store', sid,
                                             e.fetched_at, 0) :
                        ValuesAt(res, e.observation_date)
                           = {e.value_numeric} )
      ]_storeVars

\* The rows of the store that the filter of the last read lets through.
Eligible ==
    {r \in store :
        /\ r.series_id = result.sid
        /\ CASE result.path \in {"as_of_values", "as_of_points"} ->
                    r.fetched_at <= result.as_of
             [] result.path = "as_of_pub" ->
                    Coalesce(r) <= DateOf(result.as_of)
             [] result.path = "up_to_obs" ->
                    r.observation_date <= DateOf(result.as_of)
             [] OTHER -> TRUE}

Returned == Range(result.rows)

\* (COALESCE(...), fetched_at) of a is lexicographically >= that of b.
RecencyGeq(a, b) ==
    \/ Coalesce(a) > Coalesce(b)
    \/ Coalesce(a) = Coalesce(b) /\ a.fetched_at >= b.fetched_at

\* C6: in every read path, the row returned for an observation date is one
\* of the rows passing the path's filter, no row passing the filter for
\* that date has a greater (COALESCE(vintage_date, date(publication_date),
\* date(fetched_at)), fetched_at), and one row is returned per date.
C6_ReadsReturnGreatestRecency ==
    result.path # "none" =>
        /\ Returned \subseteq Eligible
        /\ \A r \in Returned : \A o \in Eligible :
              o.observation_date = r.observation_date => RecencyGeq(r, o)
        /\ \A r, o \in Returned :
              o.observation_date = r.observation_date => o = r
        /\ Len(result.rows) = Cardinality(Returned)

\* C6 witness: a read returned a row although another row of the same
\* observation passing the filter was fetched later (it has the smaller
\* COALESCE date).
C6_Witness ==
    /\ result.path = "up_to_obs"
    /\ \E r \in Returned : \E o \in Eligible :
          /\ o.observation_date = r.observation_date
          /\ o.fetched_at > r.fetched_at
          /\ Coalesce(o) < Coalesce(r)

AsOfFetchedPaths == {"as_of_values", "as_of_points"}

-----------------------------------------------------------------------------
(* Claims about the snapshot service.                                      *)

\* The rows of the store that the frozen inputs of snapshot s name.
FrozenRows(s) ==
    {r \in store : \E j \in 1..Len(s.frozen_inputs) :
        /\ r.series_id = s.frozen_inputs[j].series_id
        /\ r.vintage_id = s.frozen_inputs[j].vintage_id
        /\ r.observation_date = s.frozen_inputs[j].observation_date}

\* C3: for every persisted snapshot, evaluating each indicator that its
\* frozen inputs reference on a store holding only the rows those frozen
\* inputs name gives the value_numeric, z20 and status persisted with the
\* snapshot.
C3_FrozenInputsRecomputeEvidence ==
    \A s \in snapshots : \A j \in 1..Len(s.frozen_inputs) :
        LET id == s.frozen_inputs[j].indicator_id
            kept == PersistedIndicator(s, id)
        IN  \A view \in Views(FrozenRows(s), NULL, "fetched") :
               LET again == compute_indicator_status(RegById(registry, id),
                                                     view, qt_caps).row
               IN  /\ again.value_numeric = kept.value_numeric
                   /\ again.z20 = kept.z20
                   /\ again.status = kept.status

\* The snapshots that are not of horizon h and day d.
OtherDays(S, h, d) == {s \in S : ~(s.horizon = h /\ DateOf(s.as_of) = d)}

\* C4: in a sequence of requests, every step of a /events/recompute with
\* an as_of leaves the snapshots of other horizons or other days as they
\* were, and when the request is answered exactly one snapshots row has
\* its horizon and the date of its as_of.
C4_RecomputeLeavesOneRowPerDay ==
    [][\A p \in Procs :
          ( /\ req'[p] # req[p]
            /\ req'[p].pc # "idle"
            /\ req'[p].kind = "recompute"
            /\ req'[p].as_of # NoAsOf )
          =>
          LET h == req'[p].horizon
              d == DateOf(StoredTimestamp(req'[p].as_of))
          IN  /\ OtherDays(snapshots', h, d) = OtherDays(snapshots, h, d)
              /\ req'[p].pc = "done" =>
                    Cardinality(snapshots' \ OtherDays(snapshots', h, d)) = 1
      ]_vars

\* C5: when two workers have each answered a recompute or backfill request
\* for the same horizon and the same day (as_of in UTC), exactly one
\* snapshots row exists for that horizon and day.
C5_ConcurrentRequestsLeaveOneRow ==
    \A p, q \in Procs :
        ( /\ p # q
          /\ req[p].pc = "done" /\ req[q].pc = "done"
          /\ req[p].as_of # NoAsOf /\ req[q].as_of # NoAsOf
          /\ req[p].as_of.offset = 0 /\ req[q].as_of.offset = 0
          /\ req[p].horizon = req[q].horizon
          /\ LocalDate(req[p].as_of) = LocalDate(req[q].as_of) )
        =>
        Cardinality(snapshots \ OtherDays(snapshots, req[p].horizon,
                                          LocalDate(req[p].as_of))) = 1

\* The ids of the members of all buckets of the response, bucket by bucket.
MemberIds ==
    Flatten([j \in 1..Len(response.bucket_details) |->
                [i \in 1..Len(response.bucket_details[j].members) |->
                    response.bucket_details[j].members[i].id]])

\* C8: the bucket member lists partition the evaluated indicators: the
\* numbers of members add up to the number of indicators whose status is
\* not n/a, every such indicator is a member, and no indicator is a member
\* twice.
C8_BucketsPartitionEvaluated ==
    response # NoResponse =>
        /\ \A i \in 1..Len(response.evaluated) :
              response.evaluated[i].status # "n/a"
        /\ Len(MemberIds) = Len(response.evaluated)
        /\ Range(MemberIds) = {response.evaluated[i].id :
                                  i \in 1..Len(response.evaluated)}
        /\ \A i, j \in 1..Len(MemberIds) :
              MemberIds[i] = MemberIds[j] => i = j

\* C8 witness: three indicators evaluated into two buckets, one of them
\* with two members.
C8_Witness ==
    /\ response # NoResponse
    /\ Len(response.evaluated) = 3
    /\ Len(response.bucket_details) = 2
    /\ \E j \in 1..2 : Len(response.bucket_details[j].members) = 2

\* C9: in every bucket of bucket_details exactly one member has
\* is_representative, and its id is the bucket's representative_id.
C9_OneRepresentativePerBucket ==
    response # NoResponse =>
        \A j \in 1..Len(response.bucket_details) :
            LET b == response.bucket_details[j]
                flagged == {i \in 1..Len(b.members) :
                               b.members[i].is_representative}
            IN  /\ Cardinality(flagged) = 1
                /\ \A i \in flagged : b.members[i].id = b.representative_id

\* C9 witness: a bucket of several members whose representative is
\* neither the root nor the first member.
C9_Witness ==
    /\ response # NoResponse
    /\ \E j \in 1..Len(response.bucket_details) :
          LET b == response.bucket_details[j]
          IN  /\ Len(b.members) >= 2
              /\ b.representative_id # b.bucket_id
              /\ b.representative_id # b.members[1].id

\* duplicates_of followed to a fixed point.
RECURSIVE FixedPointRoot(_, _)
FixedPointRoot(regs, indicator_id) ==
    IF ~HasReg(regs, indicator_id) THEN indicator_id
    ELSE IF RegById(regs, indicator_id).duplicates_of = NONE
         THEN indicator_id
         ELSE FixedPointRoot(regs, RegById(regs, indicator_id).duplicates_of)

\* C10: every evaluated indicator is a member of the bucket whose
\* bucket_id is the root reached by following duplicates_of to a fixed
\* point, chains included.
C10_BucketIsFixedPointRoot ==
    response # NoResponse =>
        \A i \in 1..Len(response.evaluated) :
            \E j \in 1..Len(response.bucket_details) :
                LET b == response.bucket_details[j]
                IN  /\ b.bucket_id =
                          FixedPointRoot(registry, response.evaluated[i].id)
                    /\ \E m \in 1..Len(b.members) :
                          b.members[m].id = response.evaluated[i].id

\* The indicator ids of the registries in lexicographic order.
IdsInOrder == <<"a1", "a2", "root_a">>
IdLess(a, b) ==
    \E i, j \in 1..Len(IdsInOrder) :
        i < j /\ IdsInOrder[i] = a /\ IdsInOrder[j] = b

\* C11: the representative of each bucket is a member with the largest
\* |z20| (no z counting as 0); among the members with that |z20| it is the
\* one with the lexicographically smallest indicator_id; and every row of
\* the evidence list is the representative of a bucket.
C11_RepresentativeIsLargestZThenSmallestId ==
    response # NoResponse =>
        /\ \A j \in 1..Len(response.bucket_details) :
              LET b == response.bucket_details[j]
              IN  \E r \in 1..Len(b.members) :
                     /\ b.members[r].id = b.representative_id
                     /\ \A m \in 1..Len(b.members) :
                           /\ ~ZAbsLess(b.members[r].z20, b.members[m].z20)
                           /\ ZAbsLess(b.members[m].z20, b.members[r].z20)
                              \/ m = r
                              \/ IdLess(b.members[r].id, b.members[m].id)
        /\ \A i \in 1..Len(response.indicators) :
              \E j \in 1..Len(response.bucket_details) :
                 response.bucket_details[j].representative_id
                    = response.indicators[i].id

\* C11 witness: a bucket whose root and a duplicate tie on a defined z, the
\* duplicate (the smaller id) being the representative.
C11_Witness ==
    /\ response # NoResponse
    /\ \E j \in 1..Len(response.bucket_details) :
          LET b == response.bucket_details[j]
          IN  /\ b.representative_id # b.bucket_id
              /\ \E r, m \in 1..Len(b.members) :
                    /\ b.members[r].id = b.representative_id
                    /\ b.members[m].id = b.bucket_id
                    /\ b.members[r].z20.def
                    /\ b.members[m].z20 = b.members[r].z20

\* Fractions num/den with den > 0.
FracAdd(a, b) == [num |-> a.num * b.den + b.num * a.den, den |-> a.den * b.den]
FracEq(a, b) == a.num * b.den = b.num * a.den

StatusValue(status) ==
    CASE status = "+1" -> 1 [] status = "-1" -> -1 [] OTHER -> 0

\* weight times mean contribution of bucket b of the response, in tenths
\* over the number of members; 0 for a category outside the weight table.
BucketTerm(b) ==
    [num |-> WeightTenths(b.category)
                * SumSeq([m \in 1..Len(b.members) |->
                             StatusValue(b.members[m].status)]),
     den |-> 10 * Len(b.members)]

RECURSIVE WeightedSumOf(_)
WeightedSumOf(details) ==
    IF Len(details) = 0 THEN [num |-> 0, den |-> 1]
    ELSE FracAdd(BucketTerm(Head(details)), WeightedSumOf(Tail(details)))

\* C12: score_cont is the sum over the buckets of the weight of the root
\* category (0.50, 0.30, 0.20, else 0) times the bucket's mean
\* contribution, also when no bucket has a weighted root category.
C12_ScoreContIsWeightedSum ==
    response # NoResponse =>
        FracEq(response.regime.score_cont,
               WeightedSumOf(response.bucket_details))

\* The integers nearest to num/den (both neighbours of a half).
IsNearest(n, num, den) == 2 * Abs(n * den - num) <= den

WeightedBuckets(details) ==
    {j \in 1..Len(details) : WeightTenths(details[j].category) > 0}

-----------------------------------------------------------------------------
(* Claims about the evaluation of one indicator.                           *)

\* The stored observations of a series, by observation date (the stores of
\* these claims hold one vintage per date).
StoredDates(sid) == {r.observation_date : r \in {x \in store : x.series_id = sid}}

StoredOn(sid, d) ==
    CHOOSE r \in store : r.series_id = sid /\ r.observation_date = d

StoredPoints(sid) ==
    LET dates == Sorted(StoredDates(sid))
    IN  [i \in 1..Len(dates) |-> StoredOn(sid, dates[i])]

TheReg == registry[1]
Scored == evaluation # NoEvaluation /\ evaluation.row.status # "n/a"

\* z of the point list with the last b points dropped
ZTruncated(points, b) ==
    IF Len(points) - b < 1 THEN ZNone
    ELSE compute_z_from_points(FirstN(points, Len(points) - b), Window)

\* every one of the P truncations has a defined z that clears the cutoff
\* with the sign s after directionality
AllTruncationsQualify(reg, points, s) ==
    \A b \in 0..(Required(reg) - 1) :
        LET z == ZTruncated(points, b)
        IN  /\ z.def
            /\ ZAbsGeq(z, Cutoff(reg))
            /\ z.sgn * directionality_sign(reg.directionality) * s > 0

\* C14: a z-scored indicator with persistence P and cutoff c (1 when
\* z_cutoff is missing or 0) has status +1 exactly when the z of each of
\* the P truncations of its points (0 .. P-1 last points dropped) is
\* defined, at least c in absolute value and positive after
\* directionality, -1 exactly when each is at least c and negative after
\* directionality, and 0 otherwise.
C14_ZStatusNeedsPTruncations ==
    (Scored /\ TheReg.scoring = "z") =>
        LET points == StoredPoints(TheReg.series[1])
            pos == AllTruncationsQualify(TheReg, points, 1)
            neg == AllTruncationsQualify(TheReg, points, -1)
        IN  /\ evaluation.row.status = "+1" <=> pos
            /\ evaluation.row.status = "-1" <=> neg
            /\ evaluation.row.status = "0" <=> (~pos /\ ~neg)
            /\ evaluation.contribution = StatusValue(evaluation.row.status)

\* Persistence 2 and both truncations qualify.
C14_Witness ==
    /\ Scored
    /\ TheReg.scoring = "z"
    /\ TheReg.persistence = 2
    /\ evaluation.row.status = "+1"

\* v satisfies "comp thresh"
Satisfies(comp, thresh, v) ==
    \/ comp = ">" /\ v > thresh
    \/ comp = ">=" /\ v >= thresh
    \/ comp = "<" /\ v < thresh
    \/ comp = "<=" /\ v <= thresh

GenericThreshold ==
    /\ Scored
    /\ TheReg.scoring = "threshold"
    /\ TheReg.indicator_id \notin {"qt_pace", "sofr_iorb"}

\* the last P observations exist and each satisfies the parsed comparator
LastPSatisfy(reg, points) ==
    LET trigger == ParseTrigger(reg.trigger_default)
        P == Required(reg)
    IN  /\ Len(points) >= P
        /\ trigger.comp # NONE
        /\ \A i \in (Len(points) - P + 1)..Len(points) :
              Satisfies(trigger.comp, trigger.thresh, points[i].value_numeric)

\* C15: a generic threshold indicator with persistence P has the status
\* directionality_sign exactly when each of its last P observations
\* satisfies the comparator parsed from trigger_default, and 0 otherwise:
\* 0 with fewer than P observations, 0 without a comparator.
C15_ThresholdNeedsLastP ==
    GenericThreshold =>
        LET points == StoredPoints(TheReg.series[1])
            sat == LastPSatisfy(TheReg, points)
            sign == IF directionality_sign(TheReg.directionality) > 0
                    THEN "+1" ELSE "-1"
        IN  /\ evaluation.row.status = sign <=> sat
            /\ evaluation.row.status = "0" <=> ~sat
            /\ evaluation.contribution = StatusValue(evaluation.row.status)

\* Persistence 2, two observations or more, both satisfy.
C15_Witness ==
    /\ GenericThreshold
    /\ TheReg.persistence = 2
    /\ evaluation.row.status = "-1"

CommonDates == Sorted(StoredDates("SOFR") \cap StoredDates("IORB"))

SpreadOn(d) ==
    StoredOn("SOFR", d).value_numeric - StoredOn("IORB", d).value_numeric

SofrIorbDraining ==
    /\ Scored
    /\ TheReg.indicator_id = "sofr_iorb"
    /\ TheReg.scoring = "threshold"
    /\ TheReg.directionality = "higher_is_draining"

\* C16: sofr_iorb with higher_is_draining and persistence P has status -1
\* exactly when SOFR - IORB > 0 on each of the last P dates that both
\* series have (P such dates exist), and status 0 otherwise.
C16_SofrIorbNeedsLastPCommonDates ==
    SofrIorbDraining =>
        LET P == Required(TheReg)
            n == Len(CommonDates)
            above == /\ n >= P
                     /\ \A i \in (n - P + 1)..n : SpreadOn(CommonDates[i]) > 0
        IN  /\ evaluation.row.status = "-1" <=> above
            /\ evaluation.row.status = "0" <=> ~above
            /\ evaluation.contribution = StatusValue(evaluation.row.status)

\* Persistence 3 and the spread above 0 on the three common dates.
C16_Witness ==
    /\ SofrIorbDraining
    /\ TheReg.persistence = 3
    /\ evaluation.row.status = "-1"

\* max(0, previous - latest) of the two latest stored values of a series
StoredRunoff(sid) ==
    LET points == StoredPoints(sid)
        diff == points[Len(points) - 1].value_numeric
                    * points[Len(points) - 1].scale
                - points[Len(points)].value_numeric * points[Len(points)].scale
    IN  IF diff > 0 THEN diff ELSE 0

QtPaceEvaluated ==
    /\ evaluation # NoEvaluation
    /\ TheReg.indicator_id = "qt_pace"
    /\ Len(StoredPoints("WSHOSHO")) >= 2
    /\ Len(StoredPoints("WSHOMCB")) >= 2

\* the caps in force on the latest WSHOSHO observation date
CapsInForce ==
    LET ust == StoredPoints("WSHOSHO")
    IN  {c \in qt_caps : c.effective_date <= ust[Len(ust)].observation_date}

\* C18: for qt_pace, with the runoff max(0, previous - latest) of the two
\* latest WSHOSHO and WSHOMCB values and the qt_caps row of greatest
\* effective_date not after the latest WSHOSHO observation date, the status
\* is -1 exactly when the UST runoff reaches the UST cap or the MBS runoff
\* reaches the MBS cap, and 0 otherwise; without such a row it is n/a.
C18_QtPaceAgainstCapInForce ==
    QtPaceEvaluated =>
        IF CapsInForce = {}
        THEN evaluation.row.status = "n/a" /\ evaluation.contribution = 0
        ELSE \E cap \in CapsInForce :
                /\ \A o \in CapsInForce : o.effective_date <= cap.effective_date
                /\ LET at_cap ==
                           \/ StoredRunoff("WSHOSHO") >= cap.ust_cap_usd_week
                           \/ StoredRunoff("WSHOMCB") >= cap.mbs_cap_usd_week
                   IN  /\ evaluation.row.status = "-1" <=> at_cap
                       /\ evaluation.row.status = "0" <=> ~at_cap
                       /\ evaluation.contribution
                              = StatusValue(evaluation.row.status)

\* Two caps in force, the UST runoff equal to the later UST cap, the MBS
\* runoff below the MBS cap.
C18_Witness ==
    /\ QtPaceEvaluated
    /\ Cardinality(CapsInForce) = 2
    /\ \E cap \in CapsInForce :
          /\ cap.effective_date = 3
          /\ StoredRunoff("WSHOSHO") = cap.ust_cap_usd_week
          /\ StoredRunoff("WSHOMCB") < cap.mbs_cap_usd_week
    /\ evaluation.row.status = "-1"

-----------------------------------------------------------------------------
(* Claims about persisted snapshots and the read-only operations.          *)

\* The ids of the registry rows that evaluate to something other than n/a
\* on a view.
EvaluatedIds(view) ==
    {registry[i].indicator_id :
        i \in {j \in 1..Len(registry) :
                  compute_indicator_status(registry[j], view,
                                           qt_caps).row.status # "n/a"}}

\* C19: a save persists, with the snapshot, exactly one
\* snapshot_indicators row for every indicator that evaluated to something
\* other than n/a for the request, and no other row, whatever k is and
\* whether or not the indicator represents its bucket.
C19_OneSnapshotIndicatorPerEvaluated ==
    [][\A p \in Procs :
          (req[p].pc = "save" /\ req'[p] # req[p]) =>
              \A s \in snapshots' \ snapshots :
                  /\ \E view \in Views(store, ReadAsOf(req[p].as_of),
                                       req[p].as_of_mode) :
                        {s.indicators[i].id : i \in 1..Len(s.indicators)}
                            = EvaluatedIds(view)
                  /\ \A i, j \in 1..Len(s.indicators) :
                        s.indicators[i].id = s.indicators[j].id => i = j]_vars

\* A snapshot saved with three evaluated indicators whose frozen inputs
\* name one indicator only (k = 1), so two persisted rows are outside the
\* evidence list and one of them does not represent its bucket.
C19_Witness ==
    \E s \in snapshots :
        /\ Len(s.indicators) = 3
        /\ Cardinality({s.frozen_inputs[j].indicator_id :
                           j \in 1..Len(s.frozen_inputs)}) = 1

\* reg declares no series, or its primary series has no row in the store
\* that the read of the request (as_of, as_of_mode) lets through.
MissingFor(reg, as_of, as_of_mode) ==
    \/ Len(reg.series) = 0
    \/ Filtered(PtsPath(ReadAsOf(as_of), as_of_mode), store,
                _resolve_series_id(reg.series[1]), ReadAsOf(as_of)) = {}

SeqIds(rows) == {rows[i].id : i \in 1..Len(rows)}

BucketMemberIds(details) ==
    UNION {SeqIds(details[j].members) : j \in 1..Len(details)}

\* C17: an indicator without series, or whose primary series has no points
\* for the requested as_of, evaluates to n/a with contribution 0, is in no
\* evidence list and in no bucket, and the regime score is computed from
\* the bucket members alone; the router leaves out every indicator without
\* series or without points.
C17_MissingDataIsExcluded ==
    /\ response # NoResponse =>
          /\ \A i \in 1..Len(registry) :
                MissingFor(registry[i], req[1].as_of, req[1].as_of_mode) =>
                    /\ \A view \in Views(store, ReadAsOf(req[1].as_of),
                                         req[1].as_of_mode) :
                          LET e == compute_indicator_status(registry[i], view,
                                                            qt_caps)
                          IN  e.row.status = "n/a" /\ e.contribution = 0
                    /\ registry[i].indicator_id \notin SeqIds(response.indicators)
                    /\ registry[i].indicator_id \notin SeqIds(response.evaluated)
                    /\ registry[i].indicator_id
                           \notin BucketMemberIds(response.bucket_details)
          /\ FracEq(response.regime.score_cont,
                    IF WeightedBuckets(response.bucket_details) # {}
                    THEN WeightedSumOf(response.bucket_details)
                    ELSE [num |-> SumSeq([i \in 1..Len(response.evaluated) |->
                                     StatusValue(response.evaluated[i].status)]),
                          den |-> 1])
    /\ router # NoRouter =>
          \A i \in 1..Len(registry) :
              MissingFor(registry[i], NoAsOf, "fetched") =>
                  registry[i].indicator_id \notin SeqIds(router.picks)

\* A snapshot for an as_of at which one indicator's series has no points
\* yet although the store holds some, next to an indicator without series
\* and an evaluated one; the router, on the latest points, picks the first.
C17_Witness ==
    /\ response # NoResponse
    /\ router # NoRouter
    /\ Len(response.evaluated) > 0
    /\ \E i, j \in 1..Len(registry) :
          /\ Len(registry[i].series) = 0
          /\ Len(registry[j].series) > 0
          /\ MissingFor(registry[j], req[1].as_of, req[1].as_of_mode)
          /\ registry[j].indicator_id \in SeqIds(router.picks)

\* The persisted tables: series_vintages, snapshots with their frozen
\* inputs and snapshot indicators, indicator_registry, qt_caps.
Tables == <<store, snapshots, registry, qt_caps>>

\* C20: executing an agent tool (get_snapshot, get_router,
\* get_indicator_history, get_series_history, get_indicator_doc,
\* get_series_doc or an unknown name), whatever its arguments, leaves
\* every persisted table as it was.
C20_ToolsLeaveTablesUnchanged == [][Tables' = Tables]_vars

\* get_snapshot has returned a snapshot with evidence while snapshots
\* were already persisted.
C20_Witness ==
    /\ tool.name = "get_snapshot"
    /\ Len(tool.result.indicators) > 0
    /\ snapshots # {}

-----------------------------------------------------------------------------
(* Claims about the aggregate of a bucket.                                 *)

\* The buckets of the response rooted at root_a with the members a1, a2
\* and root_a.
RootABuckets ==
    {j \in 1..Len(response.bucket_details) :
        /\ response.bucket_details[j].bucket_id = "root_a"
        /\ SeqIds(response.bucket_details[j].members)
              = {"a1", "a2", "root_a"}}

MemberSum(b) ==
    SumSeq([m \in 1..Len(b.members) |-> StatusValue(b.members[m].status)])

\* C30 as stated: for the bucket of root_a with the members a1 and a2, the
\* aggregate_status is +1 if and only if all three member contributions
\* are +1.
C30_AggregatePlusOneIffAllPlusOne ==
    response # NoResponse =>
        \A j \in RootABuckets :
            LET b == response.bucket_details[j]
            IN  b.aggregate_status = "+1"
                   <=> \A m \in 1..Len(b.members) : b.members[m].status = "+1"

\* C30 amended: for the bucket of root_a with the members a1 and a2, the
\* aggregate_status is the sign of the mean of the three contributions:
\* +1 if and only if their sum is positive, -1 if and only if it is
\* negative, 0 otherwise.
C30_AggregateStatusIsSignOfMean ==
    response # NoResponse =>
        \A j \in RootABuckets :
            LET b == response.bucket_details[j]
            IN  /\ b.aggregate_status = "+1" <=> MemberSum(b) > 0
                /\ b.aggregate_status = "-1" <=> MemberSum(b) < 0
                /\ b.aggregate_status = "0" <=> MemberSum(b) = 0

\* C30 witness: the bucket of root_a, a1 and a2 has the aggregate_status
\* +1 while only one of its members contributes +1 and the others 0.
C30_Witness ==
    /\ response # NoResponse
    /\ \E j \in RootABuckets :
          LET b == response.bucket_details[j]
          IN  /\ b.aggregate_status = "+1"
              /\ MemberSum(b) = 1
              /\ \A m \in 1..Len(b.members) : b.members[m].status # "-1"

-----------------------------------------------------------------------------
(* The agent stream: agent_answer_question_events.  A text is a sequence   *)
(* of atoms: words, markers, punctuation and the space " ".  None and the  *)
(* empty string, which the code tests alike with "not", are both <<>>.     *)

\* range(4)
MaxAgentSteps == 4

\* brief[:800]
ToolResultChars == 800

\* now - last_ping >= 15
PingSeconds == 15

\* The most chunks a provider stream of the model delivers.
MaxChunks == 2

\* The seconds the provider takes to deliver one chunk.
ChunkSeconds == 10

Emails == {"foo@example.com"}
Phones == {"555-123-4567"}

\* Both substitutions of _redact_pii; an atom is an address, a number or
\* neither.
_redact_pii(text) ==
    [i \in 1..Len(text) |->
        IF text[i] \in Emails THEN "[redacted_email]"
        ELSE IF text[i] \in Phones THEN "[redacted_phone]"
        ELSE text[i]]

\* str.strip()
RECURSIVE Strip(_)
Strip(text) ==
    IF text = <<>> THEN text
    ELSE IF Head(text) = " " THEN Strip(Tail(text))
    ELSE IF text[Len(text)] = " " THEN Strip(SubSeq(text, 1, Len(text) - 1))
    ELSE text

\* The positions where the word is followed by a space: marker "WORD ".
MarkerAt(text, word) ==
    {i \in 1..Len(text) - 1 : text[i] = word /\ text[i + 1] = " "}

\* '"WORD " in text'
Contains(text, word) == MarkerAt(text, word) # {}

Least(S) == CHOOSE i \in S : \A j \in S : i <= j

\* text.split("WORD ", 1)[1], also text[text.find("WORD ") + len("WORD "):]
After(text, word) ==
    SubSeq(text, Least(MarkerAt(text, word)) + 2, Len(text))

\* after.split(" ", 1): the parts before and after the first space, if any.
Spaces(text) == {i \in 1..Len(text) : text[i] = " "}
Parts(text) ==
    IF Spaces(text) = {} THEN <<text>>
    ELSE <<SubSeq(text, 1, Least(Spaces(text)) - 1),
           SubSeq(text, Least(Spaces(text)) + 1, Len(text))>>

\* The members of a JSON object the model writes.
JsonMembers == {"\"id\":1"}

\* json.loads succeeds: the text is an object of at most one member.
Parses(text) ==
    \/ text = <<"{", "}">>
    \/ Len(text) = 3 /\ text[1] = "{" /\ text[2] \in JsonMembers /\ text[3] = "}"

\* json.loads: the dict, as the set of its members.
Loads(text) == {text[i] : i \in 2..(Len(text) - 1)}

\* The documentation block of indicator 1.
IndicatorDoc == <<"Contact", " ", "foo@example.com", " ", "555-123-4567">>

\* _execute_tool, as far as the stream sees it: the documentation of an
\* indicator, the KeyError of a missing id, or the error of an unknown tool.
AgentToolResult(name, args) ==
    IF name = <<"get_indicator_doc">>
    THEN IF "\"id\":1" \in args THEN [kind |-> "doc", text |-> IndicatorDoc]
         ELSE [kind |-> "error", text |-> <<"'id'">>]
    ELSE [kind |-> "error", text |-> <<"unknown tool", " ">> \o name]

\* json.dumps(result, default=str)
Dumps(val) ==
    IF val.kind = "error"
    THEN <<"{", "\"error\":", " ">> \o val.text \o <<"}">>
    ELSE <<"\"">> \o val.text \o <<"\"">>

RECURSIVE Chars(_)
Chars(text) == IF text = <<>> THEN 0 ELSE Len(Head(text)) + Chars(Tail(text))

\* text[:n], in characters; an atom the cut falls in is dropped whole.
RECURSIVE Truncate(_, _)
Truncate(text, n) ==
    IF text = <<>> \/ Len(Head(text)) > n THEN <<>>
    ELSE <<Head(text)>> \o Truncate(Tail(text), n - Len(Head(text)))

Ev(event, data) == [event |-> event, data |-> data]
Message(role, content) == [role |-> role, content |-> content]

AlreadyHave ==
    <<"You already have the requested data. Respond as FINAL with a concise answer now.">>
NowHave ==
    <<"You now have the requested data. Respond as FINAL with a concise answer now.">>
StreamingFailed == <<"Streaming failed while consulting the model.">>
DontKnow == <<"I don't know based on the available tools.">>

\* The state of one pass of the step loop before its stream is read; the
\* time is counted from the start of the pass.
StepBegin(msgs, trace, answer) ==
    [buffer |-> <<>>, detected_final |-> FALSE, detected_tool |-> FALSE,
     tool_name |-> <<>>, tool_json_buf |-> <<>>, yielded |-> <<>>,
     messages |-> msgs, tool_trace |-> trace, answer_text |-> answer,
     now |-> 0, last_ping |-> 0, outcome |-> "streaming"]

Yield(s, e) == [s EXCEPT !.yielded = Append(@, e)]

\* (a defect: the loop guard never fires)
RepeatsLast_Never(trace, name, args) == FALSE

\* The loop guard: the last executed call has this tool and these args.
RepeatsLast(trace, name, args) ==
    /\ trace # <<>>
    /\ trace[Len(trace)].tool = name
    /\ trace[Len(trace)].args = args

\* A chunk in tool mode: once the buffered JSON parses, the call is
\* skipped by the loop guard or executed, and the pass ends.
OnToolJson(s) ==
    IF ~Parses(s.tool_json_buf) THEN s
    ELSE LET args == Loads(s.tool_json_buf)
             returned == AgentToolResult(s.tool_name, args)
             dumped == Dumps(returned)
         IN  IF RepeatsLast(s.tool_trace, s.tool_name, args)
             THEN [s EXCEPT !.messages =
                               Append(@, Message("assistant", AlreadyHave)),
                            !.outcome = "break"]
             ELSE [s EXCEPT
                     !.yielded = @ \o
                         <<Ev("tool_call", [name |-> s.tool_name,
                                            args |-> args]),
                           Ev("tool_result", [name |-> s.tool_name,
                                              summary |-> dumped])>>,
                     !.tool_trace = Append(@, [tool |-> s.tool_name,
                                               args |-> args,
                                               result |-> returned]),
                     !.messages = @ \o
                         <<Message("assistant",
                              _redact_pii(<<"ToolResult(">> \o s.tool_name
                                  \o <<"):", " ">>
                                  \o Truncate(dumped, ToolResultChars))),
                           Message("assistant", NowHave)>>,
                     !.outcome = "break"]

\* A chunk before any decision: the markers FINAL and TOOL in the buffer.
OnMarkers(s, token) ==
    IF Contains(s.buffer, "FINAL")
    THEN LET remainder == After(s.buffer, "FINAL")
         IN  [s EXCEPT
                !.yielded = @ \o <<Ev("decision", [type |-> "final"])>> \o
                    (IF remainder # <<>>
                     THEN <<Ev("answer_token", [text |-> remainder])>>
                     ELSE <<>>),
                !.answer_text = @ \o remainder,
                !.detected_final = TRUE]
    ELSE IF Contains(s.buffer, "TOOL")
            /\ Len(Parts(After(s.buffer, "TOOL"))) = 2
    THEN LET parts == Parts(After(s.buffer, "TOOL"))
         IN  [s EXCEPT
                !.tool_name = Strip(parts[1]),
                !.tool_json_buf = Strip(parts[2]),
                !.yielded = Append(@, Ev("decision",
                                [type |-> "tool", name |-> Strip(parts[1])])),
                !.detected_tool = TRUE]
    ELSE Yield(s, Ev("thinking_token", [text |-> token]))

\* The keepalive ping, when a chunk arrives 15 seconds or more after the
\* last one.
Keepalive(s, now) ==
    IF now - s.last_ping >= PingSeconds
    THEN [s EXCEPT !.yielded = Append(@, Ev("ping", [t |-> now])),
                   !.last_ping = now, !.now = now]
    ELSE [s EXCEPT !.now = now]

\* (a defect: a chunk after FINAL is looked at for markers again)
Consume_MarkersAfterFinal(s, token) ==
    LET pinged == Keepalive(s, s.now + ChunkSeconds)
        b == IF s.detected_tool
             THEN [pinged EXCEPT !.tool_json_buf = @ \o token]
             ELSE [pinged EXCEPT !.buffer = @ \o token]
    IN  IF s.detected_tool THEN OnToolJson(b)
        ELSE IF s.detected_final
        THEN Yield(b, Ev("thinking_token", [text |-> token]))
        ELSE OnMarkers(b, token)

\* One pass of the body of "for chunk in provider.stream(...)".
Consume(s, token) ==
    LET pinged == Keepalive(s, s.now + ChunkSeconds)
        b == IF s.detected_tool
             THEN [pinged EXCEPT !.tool_json_buf = @ \o token]
             ELSE [pinged EXCEPT !.buffer = @ \o token]
    IN  IF s.detected_final
        THEN [b EXCEPT !.yielded = Append(@, Ev("answer_token",
                                                [text |-> token])),
                       !.answer_text = @ \o token]
        ELSE IF s.detected_tool THEN OnToolJson(b)
        ELSE OnMarkers(b, token)

\* The else branch of the for: the stream ended without a break.
Ended(s) ==
    [s EXCEPT !.answer_text = IF @ = <<>> THEN Strip(s.buffer) ELSE @,
              !.yielded = Append(@, Ev("decision", [type |-> "final"])),
              !.outcome = "ended"]

\* The except branch: the stream call raised.
Failed(s) ==
    [s EXCEPT !.answer_text = StreamingFailed,
              !.yielded = Append(@, Ev("error", [message |-> StreamingFailed])),
              !.outcome = "failed"]

\* The for over the chunks of one stream, which then ends or raises.
RECURSIVE StreamLoop(_, _, _)
StreamLoop(s, chunks, raises) ==
    IF s.outcome = "break" THEN s
    ELSE IF chunks = <<>> THEN IF raises THEN Failed(s) ELSE Ended(s)
    ELSE StreamLoop(Consume(s, Head(chunks)), Tail(chunks), raises)

\* (a defect: the loop goes on after a stream call raised)
Continues_AfterFailure(outcome) == outcome \in {"break", "failed"}

\* The step loop goes on after a break out of the stream, and stops after
\* the break of its else and except branches.
Continues(outcome) == outcome = "break"

\* What the model may say in one chunk.
Chunks ==
    {<<"TOOL", " ", "get_indicator_doc", " ", "{">>,
     <<"TOOL", " ", "nosuch", " ", "{">>,
     <<"\"id\":1", "}">>,
     <<"FINAL", " ", "ok">>}

Streams == UNION {[1..n -> Chunks] : n \in 0..MaxChunks}

Questions ==
    {<<"What", " ", "is", " ", "reserves_w?">>,
     <<"Mail", " ", "foo@example.com", " ", "or", " ", "555-123-4567">>}

\* The cached brief markdown: none, or a brief.
Briefs == {<<>>, <<"Regime:", " ", "Neutral">>}

\* messages[-6:]
TrimLength == 6

\* What a provider stream call is sent: the last messages of the
\* conversation, then the step prompt.
ModelInput(msgs) ==
    LastN(msgs, TrimLength) \o <<Message("user", <<"StepPrompt">>)>>

\* The prelude, up to the start event (whose payload also carries the
\* as_of and the regime of the cached snapshot, if there is one).
AgentStart(q, brief_md) ==
    /\ pc = "idle"
    /\ question' = q
    /\ messages' =
          <<Message("system", <<"SystemPrompt">>),
            Message("user", <<"Question:", " ">> \o _redact_pii(q))>>
          \o (IF brief_md # <<>>
              THEN <<Message("assistant", <<"BriefContext">> \o brief_md)>>
              ELSE <<>>)
    /\ model_input' = <<>>
    /\ events' = <<Ev("start", [horizon |-> "1w"])>>
    /\ tool_trace' = <<>>
    /\ answer_text' = <<>>
    /\ step' = 0
    /\ pc' = "loop"
    /\ UNCHANGED <<storeVars, registry, response, snapshots, nextSnap, req,
                   qt_caps, evaluation, router, tool, ingestVars, briefVars>>

\* One pass of the step loop: one provider stream call, read to its end or
\* to the break.
AgentStep(chunks, raises) ==
    /\ pc = "loop"
    /\ step < MaxAgentSteps
    /\ LET s == StreamLoop(StepBegin(messages, tool_trace, answer_text),
                           chunks, raises)
       IN  /\ messages' = s.messages
           /\ events' = events \o s.yielded
           /\ tool_trace' = s.tool_trace
           /\ answer_text' = s.answer_text
           /\ pc' = IF Continues(s.outcome) THEN "loop" ELSE s.outcome
    /\ model_input' = ModelInput(messages)
    /\ step' = step + 1
    /\ UNCHANGED <<storeVars, registry, response, snapshots, nextSnap, req,
                   qt_caps, evaluation, router, tool, question, ingestVars,
                   briefVars>>

\* After the loop: the final event.
AgentFinish ==
    /\ pc \in {"ended", "failed"} \/ (pc = "loop" /\ step >= MaxAgentSteps)
    /\ answer_text' = IF answer_text = <<>> THEN DontKnow ELSE answer_text
    /\ events' = Append(events,
                        Ev("final", [answer |-> _redact_pii(answer_text'),
                                     tool_trace |-> tool_trace]))
    /\ pc' = "done"
    /\ UNCHANGED <<storeVars, registry, response, snapshots, nextSnap, req,
                   qt_caps, evaluation, router, tool, question, messages,
                   model_input, tool_trace, step, ingestVars, briefVars>>

InitAgent ==
    /\ store = {}
    /\ nextId = 1
    /\ result = NoRead
    /\ registry = <<>>
    /\ response = NoResponse
    /\ snapshots = {}
    /\ nextSnap = 1
    /\ req = [p \in Procs |-> Idle]
    /\ qt_caps = {}
    /\ evaluation = NoEvaluation
    /\ router = NoRouter
    /\ tool = NoTool
    /\ AgentIdle
    /\ IngestIdle
    /\ BriefIdle

NextAgent ==
    \/ \E q \in Questions, brief_md \in Briefs : AgentStart(q, brief_md)
    \/ \E chunks \in Streams, raises \in BOOLEAN : AgentStep(chunks, raises)
    \/ AgentFinish

SpecAgent == InitAgent /\ [][NextAgent]_vars

-----------------------------------------------------------------------------
(* Claims about the agent stream.                                          *)

EventsNamed(name) == {i \in 1..Len(events) : events[i].event = name}

\* C21: the event stream begins with its one start event; at most 4
\* provider stream calls and at most 4 tool executions are made; the
\* finished stream has exactly one final event, its last; and after a
\* stream call raised, an error event is emitted, nothing but the final
\* event follows it and no provider call is made any more.
C21_AgentStreamIsBounded ==
    /\ pc # "idle" => /\ EventsNamed("start") = {1}
                      /\ step <= 4
                      /\ Len(tool_trace) <= 4
                      /\ Cardinality(EventsNamed("tool_call")) <= 4
    /\ pc = "done" => EventsNamed("final") = {Len(events)}
    /\ pc # "done" => EventsNamed("final") = {}
    /\ pc = "failed" => events[Len(events)].event = "error"
    /\ \A i \in EventsNamed("error") :
          /\ pc \in {"failed", "done"}
          /\ \A j \in (i + 1)..Len(events) : events[j].event = "final"

\* C21 witness: a finished stream that used its 4 provider stream calls
\* for 4 tool executions.
C21_Witness ==
    /\ pc = "done"
    /\ step = 4
    /\ Len(tool_trace) = 4
    /\ Cardinality(EventsNamed("tool_call")) = 4

\* What one more pass of the step loop makes of the stream state.
Pass(chunks, raises) ==
    StreamLoop(StepBegin(messages, tool_trace, answer_text), chunks, raises)

\* The call (tool, args) a stream asks for, if any: what it gets executed
\* when nothing has been executed before.
Asked(chunks) ==
    StreamLoop(StepBegin(<<>>, <<>>, <<>>), chunks, FALSE).tool_trace

NamesOf(yielded) == {yielded[i].event : i \in 1..Len(yielded)}

\* C22: when the stream asks for the tool and the arguments of the last
\* executed call, the tool is not executed, no tool_call and no
\* tool_result event is yielded, the nudge is appended to the conversation
\* and the pass of the loop is used up; and no two adjacent entries of
\* tool_trace have the same tool and arguments.
C22_LoopGuardSkipsRepeatedCall ==
    /\ \A i \in 1..(Len(tool_trace) - 1) :
          \/ tool_trace[i].tool # tool_trace[i + 1].tool
          \/ tool_trace[i].args # tool_trace[i + 1].args
    /\ (pc = "loop" /\ step < 4 /\ tool_trace # <<>>) =>
          \A chunks \in Streams, raises \in BOOLEAN :
             LET last == tool_trace[Len(tool_trace)]
                 s == Pass(chunks, raises)
             IN  (/\ Asked(chunks) # <<>>
                  /\ Asked(chunks)[1].tool = last.tool
                  /\ Asked(chunks)[1].args = last.args)
                 => /\ s.tool_trace = tool_trace
                    /\ NamesOf(s.yielded) \cap {"tool_call", "tool_result"}
                          = {}
                    /\ s.messages
                          = Append(messages,
                                   Message("assistant", AlreadyHave))
                    /\ s.outcome = "break"

\* C22 witness: the loop guard has just skipped a repeated call.
C22_Witness ==
    /\ pc = "loop"
    /\ tool_trace # <<>>
    /\ step > Len(tool_trace)
    /\ messages[Len(messages)].content = AlreadyHave

\* The ToolResult message of the last executed call is in the conversation.
ToolResultAppended(s) ==
    /\ Len(s.messages) >= 2
    /\ s.messages[Len(s.messages) - 1].content[1] = "ToolResult("

\* C23: when the output of a pass is a TOOL directive whose arguments
\* never parse as JSON, or one that names an unknown tool, a tool_trace
\* entry with an error result and a ToolResult message are appended, the
\* pass is used up and the loop goes on.
C23_ToolFailureIsRecordedAsToolResult ==
    (pc = "loop" /\ step < 4) =>
        \A chunks \in Streams :
           LET s == Pass(chunks, FALSE)
               unparsed == s.detected_tool /\ s.outcome = "ended"
               unknown == /\ s.detected_tool
                          /\ s.outcome = "break"
                          /\ s.tool_name # <<"get_indicator_doc">>
                          /\ ~RepeatsLast(tool_trace, s.tool_name,
                                          Loads(s.tool_json_buf))
           IN  (unparsed \/ unknown)
               => /\ Len(s.tool_trace) = Len(tool_trace) + 1
                  /\ s.tool_trace[Len(s.tool_trace)].tool = s.tool_name
                  /\ s.tool_trace[Len(s.tool_trace)].result.kind = "error"
                  /\ ToolResultAppended(s)
                  /\ Continues(s.outcome)

PII == Emails \cup Phones

Leaks(text) == \E i \in 1..Len(text) : text[i] \in PII

\* C24: no e-mail address and no phone number of the question or of a tool
\* result is in the conversation sent to the model, in the summary of a
\* tool_result event, in the answer of the final event or in its
\* tool_trace.
C24_NoPiiPastRedaction ==
    /\ \A i \in 1..Len(messages) : ~Leaks(messages[i].content)
    /\ \A i \in EventsNamed("tool_result") : ~Leaks(events[i].data.summary)
    /\ \A i \in EventsNamed("final") :
          /\ ~Leaks(events[i].data.answer)
          /\ \A j \in 1..Len(events[i].data.tool_trace) :
                ~Leaks(Dumps(events[i].data.tool_trace[j].result))

-----------------------------------------------------------------------------
(* Derived series: weekly net settlements (app/supply.py).  Dates are day  *)
(* numbers, day 0 being a Monday.                                          *)

DaysPerWeek == 7

\* weeks_back, by default
WeeksBack == 12

\* limit=weeks_back * 40
PointsPerWeek == 40

_monday_of_week(d) == d - (d % DaysPerWeek)

Min(S) == CHOOSE x \in S : \A y \in S : x <= y

\* float(r["value_numeric"]) * float(r.get("scale", 1) or 1)
ScaledVal(r) == r.value_numeric * (IF r.scale \in {NULL, 0} THEN 1 ELSE r.scale)

\* The observations of rows add_to keeps for the week: those within the
\* common overlap.
KeptInWeek(rows, week, common_start, common_end) ==
    {i \in 1..Len(rows) :
        /\ rows[i].observation_date >= common_start
        /\ rows[i].observation_date <= common_end
        /\ _monday_of_week(rows[i].observation_date) = week}

\* agg[bucket_key] of the week
WeekSum(rows, kept) == SumSeq([i \in 1..Len(rows) |->
                                  IF i \in kept THEN ScaledVal(rows[i]) ELSE 0])

\* have.get("issues") and have.get("redemptions") and have.get("interest")
AllPresent(ki, kr, kn) == ki # {} /\ kr # {} /\ kn # {}

\* compute_weekly_net_settlements on the three lists read (ascending by
\* observation_date).
compute_weekly_net_settlements(issues, redemptions, interest, weeks_back) ==
    IF issues = <<>> \/ redemptions = <<>> \/ interest = <<>> THEN <<>>
    ELSE
    LET common_start == Max({issues[1].observation_date,
                             redemptions[1].observation_date,
                             interest[1].observation_date})
        common_end == Min({issues[Len(issues)].observation_date,
                           redemptions[Len(redemptions)].observation_date,
                           interest[Len(interest)].observation_date})
        start_week == _monday_of_week(common_start)
        end_week == _monday_of_week(common_end)
        KI(w) == KeptInWeek(issues, w, common_start, common_end)
        KR(w) == KeptInWeek(redemptions, w, common_start, common_end)
        KN(w) == KeptInWeek(interest, w, common_start, common_end)
        all == issues \o redemptions \o interest
        weeks == {_monday_of_week(all[i].observation_date) :
                     i \in {j \in 1..Len(all) :
                               /\ all[j].observation_date >= common_start
                               /\ all[j].observation_date <= common_end}}
        outw == {w \in weeks : /\ w >= start_week
                               /\ w <= end_week
                               /\ AllPresent(KI(w), KR(w), KN(w))}
        sorted == Sorted(outw)
        out == [i \in 1..Len(sorted) |->
                   [observation_date |-> sorted[i],
                    value_numeric |-> WeekSum(issues, KI(sorted[i]))
                                      - WeekSum(redemptions, KR(sorted[i]))
                                      - WeekSum(interest, KN(sorted[i]))]]
    IN  IF common_start > common_end THEN <<>>
        ELSE IF weeks_back # 0 /\ Len(out) > weeks_back
        THEN LastN(out, weeks_back)
        ELSE out

\* The most observations a component series of the model holds.
MaxSettleObs == 2

\* Monday and Tuesday of two weeks.
SettleDays == {0, 1, DaysPerWeek, DaysPerWeek + 1}

SettleScale(sid) ==
    CASE sid = "UST_AUCTION_ISSUES" -> 1
      [] sid = "UST_REDEMPTIONS" -> 10
      [] OTHER -> 100

\* One row per observation, fetched on its day.
SettleRows(sid, days) ==
    {[vintage_id |-> NULL, series_id |-> sid, observation_date |-> d,
      vintage_date |-> NULL, publication_date |-> NULL,
      fetched_at |-> d * TicksPerDay, value_numeric |-> d + 1,
      scale |-> SettleScale(sid)] : d \in days}

DaySets == {D \in SUBSET SettleDays : Cardinality(D) <= MaxSettleObs}

InitSettle ==
    /\ \E di \in DaySets, dr \in DaySets, dn \in DaySets :
          /\ store = Numbered(SettleRows("UST_AUCTION_ISSUES", di)
                                \cup SettleRows("UST_REDEMPTIONS", dr)
                                \cup SettleRows("UST_INTEREST", dn), 1)
          /\ nextId = Cardinality(di) + Cardinality(dr) + Cardinality(dn) + 1
    /\ result = NoRead
    /\ registry = <<>>
    /\ response = NoResponse
    /\ snapshots = {}
    /\ nextSnap = 1
    /\ req = [p \in Procs |-> Idle]
    /\ qt_caps = {}
    /\ evaluation = NoEvaluation
    /\ router = NoRouter
    /\ tool = NoTool
    /\ AgentIdle
    /\ IngestIdle
    /\ BriefIdle

\* One call of compute_weekly_net_settlements.
ComputeWeeklyNetSettlements(weeks_back) ==
    /\ ~weekly.done
    /\ \E issues \in ReadResults("latest_points", store, "UST_AUCTION_ISSUES",
                                 NULL, weeks_back * PointsPerWeek),
          redemptions \in ReadResults("latest_points", store,
                                      "UST_REDEMPTIONS", NULL,
                                      weeks_back * PointsPerWeek),
          interest \in ReadResults("latest_points", store, "UST_INTEREST",
                                   NULL, weeks_back * PointsPerWeek) :
          weekly' = [done |-> TRUE,
                     rows |-> compute_weekly_net_settlements(
                                  issues, redemptions, interest, weeks_back)]
    /\ UNCHANGED <<storeVars, registry, response, snapshots, nextSnap, req,
                   qt_caps, evaluation, router, tool, agentVars, briefVars,
                   outage, tasks, ingested, built, stage>>

NextSettle == ComputeWeeklyNetSettlements(WeeksBack)

SpecSettle == InitSettle /\ [][NextSettle]_vars

-----------------------------------------------------------------------------
(* Claims about the derived series.                                        *)

\* The stored observations of a series in the week of a Monday.
StoredInWeek(sid, monday) ==
    {r \in store : /\ r.series_id = sid
                   /\ _monday_of_week(r.observation_date) = monday}

RECURSIVE ScaledSum(_)
ScaledSum(S) ==
    IF S = {} THEN 0
    ELSE LET r == CHOOSE x \in S : TRUE
         IN  r.value_numeric * r.scale + ScaledSum(S \ {r})

WeeklyRowsOn(monday) ==
    {i \in 1..Len(weekly.rows) : weekly.rows[i].observation_date = monday}

\* C27: for each week in which each of the three component series has an
\* observation, the builder returns exactly one row dated the Monday of the
\* week, with the sum of the scaled issues minus the sum of the scaled
\* redemptions minus the sum of the scaled interest of the week; for a
\* week missing a component it returns no row.
C27_OneRowPerCompleteWeek ==
    weekly.done =>
        \A monday \in {_monday_of_week(d) : d \in SettleDays} :
           LET I == StoredInWeek("UST_AUCTION_ISSUES", monday)
               R == StoredInWeek("UST_REDEMPTIONS", monday)
               N == StoredInWeek("UST_INTEREST", monday)
           IN  IF I # {} /\ R # {} /\ N # {}
               THEN /\ Cardinality(WeeklyRowsOn(monday)) = 1
                    /\ \A i \in WeeklyRowsOn(monday) :
                          weekly.rows[i].value_numeric
                             = ScaledSum(I) - ScaledSum(R) - ScaledSum(N)
               ELSE WeeklyRowsOn(monday) = {}

-----------------------------------------------------------------------------
(* Derived series: bill - RRP spread (app/floor.py).                       *)

\* days_back and weeks_back as the ingest run passes them
IngestDaysBack == 180

IngestWeeksBack == 26

\* percent to basis points
BpsPerPercent == 100

ObservedOn(rows) == {rows[i].observation_date : i \in 1..Len(rows)}

\* by_date(rows)[d]["value_numeric"] or 0: the last row of the date wins.
ValueOn(rows, d) ==
    LET i == Max({j \in 1..Len(rows) : rows[j].observation_date = d})
    IN  IF rows[i].value_numeric = NULL THEN 0 ELSE rows[i].value_numeric

\* compute_bill_rrp_points on the three lists read.
compute_bill_rrp_points(dtb3, dtb4, rrp) ==
    LET kept == {d \in ObservedOn(rrp) : d \in ObservedOn(dtb3) \cup ObservedOn(dtb4)}
        bill_pct(d) ==
            Min((IF d \in ObservedOn(dtb3) THEN {ValueOn(dtb3, d)} ELSE {})
                \cup (IF d \in ObservedOn(dtb4) THEN {ValueOn(dtb4, d)} ELSE {}))
        sorted == Sorted(kept)
    IN  [i \in 1..Len(sorted) |->
            [observation_date |-> sorted[i],
             value_numeric |-> (bill_pct(sorted[i]) - ValueOn(rrp, sorted[i]))
                               * BpsPerPercent]]

\* The payload both writers build from the computed rows.
DerivedPayload(rows, now) ==
    [i \in 1..Len(rows) |->
        [observation_date |-> rows[i].observation_date,
         vintage_date |-> NULL,
         publication_date |-> NULL,
         fetched_at |-> now,
         value_numeric |-> rows[i].value_numeric]]

-----------------------------------------------------------------------------
(* The ingest run (app/cli_fetch.py, fetch_core_series), with the optional  *)
(* OFR feed configured.                                                    *)

\* The series fetched together from FRED (the two bill rates first: the
\* spread builder reads them).
FredSeries == <<"DTB3", "DTB4WK", "WALCL", "RESPPLLOPNWW", "RRPONTSYD",
                "SOFR", "IORB", "WSHOSHO", "WSHOMCB">>

\* The number of them a run of the model gathers.
MaxFredTasks == 4

FredCore == {FredSeries[i] : i \in 1..Min({MaxFredTasks, Len(FredSeries)})}

\* The fetches that follow, in order, then the derived builders.
LaterSources == <<"RRP_RATE", "TGA", "UST_REDEMPTIONS", "UST_INTEREST",
                  "OFR_LIQ_IDX", "AUCTIONS">>

DerivedBuilders == <<"UST_NET_SETTLE_W", "BILL_RRP_BPS">>

StageOrder == LaterSources \o DerivedBuilders \o <<"done">>

Following(st) ==
    StageOrder[1 + CHOOSE i \in 1..Len(StageOrder) : StageOrder[i] = st]

UpstreamSources == FredCore \cup Range(LaterSources)

\* The series one fetch is upserted under.
SeriesOf(source) ==
    IF source = "AUCTIONS"
    THEN <<"UST_AUCTION_OFFERINGS", "UST_BILL_OFFERINGS",
           "UST_AUCTION_ISSUES">>
    ELSE <<source>>

\* What a source that answers returns: one observation of day 0, its value
\* set by the series.
Fetched(sid) ==
    <<[observation_date |-> 0, vintage_date |-> NULL,
       publication_date |-> NULL, fetched_at |-> 0,
       value_numeric |-> Len(sid)]>>

\* upsert_series_vintages in a session of its own: the possible
\* <<table, next vintage_id>> pairs afterwards.
Upserted(db, nid, sid, rows, scale) ==
    {<<Commit(db, out[1], out[2], nid),
       IF UniqueViolation(out[2]) THEN nid ELSE nid + Len(out[2])>>
     : out \in UpsertLoop(db, <<>>, sid, rows, 1, scale)}

\* The upserts of one fetch, one series after the other.
RECURSIVE UpsertedAll(_, _, _, _)
UpsertedAll(db, nid, sids, i) ==
    IF i > Len(sids) THEN {<<db, nid>>}
    ELSE IF Fetched(sids[i]) = <<>> THEN UpsertedAll(db, nid, sids, i + 1)
    ELSE UNION {UpsertedAll(o[1], o[2], sids, i + 1)
                : o \in Upserted(db, nid, sids[i], Fetched(sids[i]), 1)}

\* At most one upstream source is down during a run.
Outages == {{}} \cup {{s} : s \in UpstreamSources}

InitIngest ==
    /\ store = {}
    /\ nextId = 1
    /\ result = NoRead
    /\ registry = <<>>
    /\ response = NoResponse
    /\ snapshots = {}
    /\ nextSnap = 1
    /\ req = [p \in Procs |-> Idle]
    /\ qt_caps = {}
    /\ evaluation = NoEvaluation
    /\ router = NoRouter
    /\ tool = NoTool
    /\ AgentIdle
    /\ IngestIdle
    /\ BriefIdle

IngestFrame ==
    UNCHANGED <<result, registry, response, snapshots, nextSnap, req,
                qt_caps, evaluation, router, tool, agentVars, briefVars,
                weekly>>

\* fetch_core_series is called: the FRED fetches are started together.
IngestBegin ==
    /\ stage = "idle"
    /\ \E o \in Outages : outage' = o
    /\ tasks' = FredCore
    /\ stage' = "fred"
    /\ UNCHANGED <<store, nextId, ingested, built>>
    /\ IngestFrame

\* await asyncio.gather(...) without return_exceptions: the first exception
\* of a task is raised in fetch_core_series.
GatherRaises(failed) == failed

\* One fetch_and_ingest task runs to its end.  When its fetch raises, the
\* exception leaves fetch_core_series (nothing catches it) and the tasks
\* still waiting are cancelled with the event loop.
FredTask(s) ==
    /\ stage = "fred"
    /\ s \in tasks
    /\ IF s \in outage
       THEN /\ stage' = IF GatherRaises(TRUE) THEN "aborted" ELSE stage
            /\ tasks' = IF GatherRaises(TRUE) THEN {} ELSE tasks \ {s}
            /\ UNCHANGED <<store, nextId, ingested>>
       ELSE /\ \E o \in UpsertedAll(store, nextId, SeriesOf(s), 1) :
                  /\ store' = o[1]
                  /\ nextId' = o[2]
            /\ ingested' = ingested \cup {s}
            /\ tasks' = tasks \ {s}
            /\ stage' = stage
    /\ UNCHANGED <<outage, built>>
    /\ IngestFrame

\* The gather returns once every task is done.
FredDone ==
    /\ stage = "fred"
    /\ tasks = {}
    /\ stage' = StageOrder[1]
    /\ UNCHANGED <<store, nextId, outage, tasks, ingested, built>>
    /\ IngestFrame

\* One of the later fetches, in its own try: on an exception the message is
\* printed and the run goes on.
FetchSource(s) ==
    /\ stage = s
    /\ IF s \in outage
       THEN UNCHANGED <<store, nextId, ingested>>
       ELSE /\ \E o \in UpsertedAll(store, nextId, SeriesOf(s), 1) :
                  /\ store' = o[1]
                  /\ nextId' = o[2]
            /\ ingested' = ingested \cup {s}
    /\ stage' = Following(s)
    /\ UNCHANGED <<outage, tasks, built>>
    /\ IngestFrame

\* upsert_weekly_net_settlements(s, weeks_back=26)
UpsertWeeklyNetSettlements ==
    /\ stage = "UST_NET_SETTLE_W"
    /\ \E issues \in ReadResults("latest_points", store, "UST_AUCTION_ISSUES",
                                 NULL, IngestWeeksBack * PointsPerWeek),
          redemptions \in ReadResults("latest_points", store,
                                      "UST_REDEMPTIONS", NULL,
                                      IngestWeeksBack * PointsPerWeek),
          interest \in ReadResults("latest_points", store, "UST_INTEREST",
                                   NULL, IngestWeeksBack * PointsPerWeek) :
          \E o \in Upserted(store, nextId, "UST_NET_SETTLE_W",
                            DerivedPayload(compute_weekly_net_settlements(
                                issues, redemptions, interest,
                                IngestWeeksBack), 0), 1) :
             /\ store' = o[1]
             /\ nextId' = o[2]
    /\ built' = built \cup {stage}
    /\ stage' = Following(stage)
    /\ UNCHANGED <<outage, tasks, ingested>>
    /\ IngestFrame

\* upsert_bill_rrp_spread(s, days_back=180)
UpsertBillRrpSpread ==
    /\ stage = "BILL_RRP_BPS"
    /\ \E dtb3 \in ReadResults("latest_points", store, "DTB3", NULL,
                               IngestDaysBack),
          dtb4 \in ReadResults("latest_points", store, "DTB4WK", NULL,
                               IngestDaysBack),
          rrp \in ReadResults("latest_points", store, "RRP_RATE", NULL,
                              IngestDaysBack) :
          \E o \in Upserted(store, nextId, "BILL_RRP_BPS",
                            DerivedPayload(compute_bill_rrp_points(
                                dtb3, dtb4, rrp), 0), 1) :
             /\ store' = o[1]
             /\ nextId' = o[2]
    /\ built' = built \cup {stage}
    /\ stage' = Following(stage)
    /\ UNCHANGED <<outage, tasks, ingested>>
    /\ IngestFrame

NextIngest ==
    \/ IngestBegin
    \/ \E s \in FredCore : FredTask(s)
    \/ FredDone
    \/ \E s \in Range(LaterSources) : FetchSource(s)
    \/ UpsertWeeklyNetSettlements
    \/ UpsertBillRrpSpread

SpecIngest == InitIngest /\ [][NextIngest]_vars

-----------------------------------------------------------------------------
(* Claims about the ingest run.                                            *)

\* C28: when one source is down, the run still ends with every other
\* source fetched and upserted and with both derived builders run.
C28_OneFailureDoesNotAbort ==
    stage \in {"done", "aborted"} =>
        /\ UpstreamSources \ outage \subseteq ingested
        /\ built = Range(DerivedBuilders)

-----------------------------------------------------------------------------
(* Specification of the store under ingest and the snapshot service        *)
(* together: upserts interleaved with the requests of one worker.  The     *)
(* value a fetch delivers is set by its time, so a row rewritten by a      *)
(* later fetch shows.                                                      *)

\* The value the source reports at time fa.
ValueFetched(fa) == (fa % Cardinality(Values)) + 1

InitFrame ==
    /\ store = {}
    /\ nextId = 1
    /\ result = NoRead
    /\ registry = CHOOSE R \in EventRegistries : TRUE
    /\ response = NoResponse
    /\ snapshots = {}
    /\ nextSnap = 1
    /\ req = [p \in Procs |-> Idle]
    /\ qt_caps = {}
    /\ evaluation = NoEvaluation
    /\ router = NoRouter
    /\ tool = NoTool
    /\ AgentIdle
    /\ IngestIdle
    /\ BriefIdle

\* The batches of one fetch.
FetchedBatches(fa) ==
    {b \in Batches(fa) :
        \A i \in 1..Len(b) : b[i].value_numeric = ValueFetched(fa)}

UpsertFetched ==
    \E sid \in Series, fa \in Times, scale \in Scales :
        \E rows \in FetchedBatches(fa) : UpsertPoints(sid, rows, scale)

\* The requests: a recompute and a backfill of the weekly horizon at the
\* last request time.
FrameNow == Max(RequestTimes)

NextFrame ==
    \/ UpsertFetched
    \/ RecomputeBegin(1, "1w", 2, UtcNow(FrameNow), "obs", FrameNow)
    \/ BackfillBegin(1, "1w", MaxDays, 2, "obs", FrameNow)
    \/ BackfillNext(1)
    \/ Save(1)

SpecFrame == InitFrame /\ [][NextFrame]_vars

-----------------------------------------------------------------------------
(* Claims about what changes the table series_vintages.                    *)

\* What an upsert call of series sid with the batch rows may do to the rows
\* that exist: each is still there with its vintage_id, its key columns and
\* its fetched_at, and identical when no row of the batch has its key.
FrameOfUpsert(sid, rows) ==
    \A e \in store :
        \E e2 \in store' :
            /\ e2.vintage_id = e.vintage_id
            /\ SameKey(e, e2)
            /\ e2.fetched_at = e.fetched_at
            /\ (\A i \in 1..Len(rows) : ~KeyMatch(e, sid, rows[i])) => e2 = e

\* C29: an upsert call leaves the vintage_id, the key columns and the
\* fetched_at of every existing row as they were and changes no row whose
\* key is not in its batch; only an upsert call changes the table, and no
\* step of the snapshot service (a recompute, a backfill, the evaluation
\* and save of a snapshot) changes or deletes a row of it.
C29_OnlyUpsertRewritesPayload ==
    [][/\ \A sid \in Series, fa \in Times, scale \in Scales :
             \A rows \in FetchedBatches(fa) :
                 UpsertPoints(sid, rows, scale) => FrameOfUpsert(sid, rows)
       /\ store' # store =>
             \E sid \in Series, fa \in Times, scale \in Scales :
                 \E rows \in FetchedBatches(fa) :
                     UpsertPoints(sid, rows, scale)
       /\ (req' # req \/ snapshots' # snapshots) => store' = store]_vars

\* A row rewritten by a later fetch, and a snapshot saved.
C29_Witness ==
    /\ \E r \in store : r.value_numeric # ValueFetched(r.fetched_at)
    /\ snapshots # {}

-----------------------------------------------------------------------------
(* The brief verifier (app/llm/orchestrator.py, _verify_brief).  A text is *)
(* a sequence of atoms: the characters of its numerals and punctuation one *)
(* by one, and its other words whole.  A float is kept as an exact         *)
(* decimal [m, e], the number m / 10^e.                                    *)

\* words > 320
WordLimit == 320

\* min(len(indicator_infos), 12)
BulletCap == 12

\* max(3, ...)
BulletFloor == 3

\* more than 5 number issues end the loop
FloodLimit == 5

\* abs(f - af) <= 1e-6
EpsDecimals == 6

DigitChars == <<"0", "1", "2", "3", "4", "5", "6", "7", "8", "9">>

IsDigit(c) == c \in Range(DigitChars)

DigitVal(c) == (CHOOSE i \in 1..Len(DigitChars) : DigitChars[i] = c) - 1

RECURSIVE Pow10(_)
Pow10(n) == IF n = 0 THEN 1 ELSE 10 * Pow10(n - 1)

\* text.replace(",", "").replace(en dash, "-"); the atom "EN DASH" is the
\* en dash.
Cleaned(text) ==
    LET kept == SelectSeq(text, LAMBDA c : c # ",")
    IN  [i \in 1..Len(kept) |-> IF kept[i] = "EN DASH" THEN "-" ELSE kept[i]]

\* The last position of the run of digits that starts at i.
RECURSIVE DigitsEnd(_, _)
DigitsEnd(text, i) ==
    IF i < Len(text) /\ IsDigit(text[i + 1]) THEN DigitsEnd(text, i + 1)
    ELSE i

\* The match of -?\d+(?:\.\d+)? at position i: its last position, 0 when
\* there is none.
MatchEnd(text, i) ==
    LET d == IF text[i] = "-" THEN i + 1 ELSE i
    IN  IF d > Len(text) \/ ~IsDigit(text[d]) THEN 0
        ELSE LET e == DigitsEnd(text, d)
             IN  IF e + 2 <= Len(text) /\ text[e + 1] = "."
                    /\ IsDigit(text[e + 2])
                 THEN DigitsEnd(text, e + 2)
                 ELSE e

\* re.findall from position i on: the matches, left to right.
RECURSIVE FindAll(_, _)
FindAll(text, i) ==
    IF i > Len(text) THEN <<>>
    ELSE With(MatchEnd(text, i), LAMBDA e :
             IF e = 0 THEN FindAll(text, i + 1)
             ELSE <<SubSeq(text, i, e)>> \o FindAll(text, e + 1))

_normalize_numeric_tokens(text) ==
    IF text = <<>> THEN <<>>
    ELSE With(Cleaned(text), LAMBDA cleaned : FindAll(cleaned, 1))

RECURSIVE DigitsValue(_)
DigitsValue(ds) ==
    IF ds = <<>> THEN 0
    ELSE DigitsValue(SubSeq(ds, 1, Len(ds) - 1)) * 10 + DigitVal(ds[Len(ds)])

\* float(s) of a numeral
_as_float(s) ==
    LET neg == s[1] = "-"
        body == IF neg THEN Tail(s) ELSE s
        dot == {i \in 1..Len(body) : body[i] = "."}
        ip == IF dot = {} THEN body ELSE SubSeq(body, 1, Least(dot) - 1)
        fp == IF dot = {} THEN <<>> ELSE SubSeq(body, Least(dot) + 1, Len(body))
        m == DigitsValue(ip \o fp)
    IN  [m |-> IF neg THEN 0 - m ELSE m, e |-> Len(fp)]

\* abs(f - af) <= 1e-6
Near(f, af) ==
    LET d == Abs(f.m * Pow10(af.e) - af.m * Pow10(f.e))
        places == f.e + af.e
    IN  IF places < EpsDecimals THEN d = 0
        ELSE d <= Pow10(places - EpsDecimals)

RECURSIVE StrNat(_)
StrNat(n) ==
    IF n < 10 THEN <<DigitChars[n + 1]>>
    ELSE StrNat(n \div 10) \o <<DigitChars[(n % 10) + 1]>>

\* str(val) of an int
StrInt(n) == IF n < 0 THEN <<"-">> \o StrNat(0 - n) ELSE StrNat(n)

RECURSIVE ZeroPad(_, _)
ZeroPad(ds, width) ==
    IF Len(ds) >= width THEN ds ELSE ZeroPad(<<"0">> \o ds, width)

\* str(val) of a float with e >= 1 decimals
StrFloat(x) ==
    (IF x.m < 0 THEN <<"-">> ELSE <<>>)
    \o StrNat(Abs(x.m) \div Pow10(x.e))
    \o <<".">>
    \o ZeroPad(StrNat(Abs(x.m) % Pow10(x.e)), x.e)

\* text.lower(), for the words the verifier looks for
Lower(c) ==
    CASE c = "Regime:" -> "regime:"
      [] c = "Evidence:" -> "evidence:"
      [] c = "Interpretation" -> "interpretation"
      [] OTHER -> c

Whitespace == {" ", "\n"}

\* len(text.split())
WordCount(text) ==
    Cardinality({i \in 1..Len(text) :
                    /\ text[i] \notin Whitespace
                    /\ (i = 1 \/ text[i - 1] \in Whitespace)})

\* Position i is the first atom of its line that is not a space.
RECURSIVE LeadsLine(_, _)
LeadsLine(text, i) ==
    \/ i = 1
    \/ text[i - 1] = "\n"
    \/ text[i - 1] = " " /\ LeadsLine(text, i - 1)

\* The lines of the part after "Evidence:" that start with "-".
Bullets(text) ==
    LET at == {i \in 1..Len(text) : text[i] = "Evidence:"}
        evid_part == SubSeq(text, Least(at) + 1, Len(text))
    IN  Cardinality({i \in 1..Len(evid_part) :
                        evid_part[i] = "-" /\ LeadsLine(evid_part, i)})

Issue(kind, num) == [kind |-> kind, num |-> num]

\* The issues of the sections, the length and the bullets.
LayoutIssues(text, infos) ==
    LET lower == {Lower(text[i]) : i \in 1..Len(text)}
        expected == IF Len(infos) < BulletCap THEN Len(infos) ELSE BulletCap
        needed == IF expected > BulletFloor THEN expected ELSE BulletFloor
    IN  (IF "regime:" \notin lower
         THEN <<Issue("missing Regime line", <<>>)>> ELSE <<>>)
        \o (IF "evidence:" \notin lower
            THEN <<Issue("missing Evidence section", <<>>)>> ELSE <<>>)
        \o (IF "interpretation" \notin lower
            THEN <<Issue("missing Interpretation section", <<>>)>> ELSE <<>>)
        \o (IF WordCount(text) > WordLimit
            THEN <<Issue("too long", StrInt(WordCount(text)))>> ELSE <<>>)
        \o (IF /\ "Evidence:" \in Range(text)
               /\ expected # 0
               /\ Bullets(text) < needed
            THEN <<Issue("too few evidence bullets", StrInt(Bullets(text)))>>
            ELSE <<>>)

\* z20 is None (a float has a decimal: e >= 1)
NoZ20 == [m |-> 0, e |-> 0]

\* allowed_floats.  latest_value is a string (empty for no value).
AllowedFloats(infos, regimen) ==
    LET of_info(info) ==
            Range(_normalize_numeric_tokens(info.latest_value))
            \cup (IF info.z20 = NoZ20 THEN {} ELSE {StrFloat(info.z20)})
            \cup Range(_normalize_numeric_tokens(info.flip_trigger))
        allowed_nums ==
            {StrInt(regimen.score), StrInt(regimen.max_score)}
            \cup UNION {of_info(infos[i]) : i \in 1..Len(infos)}
    IN  {_as_float(t) : t \in allowed_nums}

\* (a defect: the loop ends with the first number issue)
FloodStop_First(n) == n > 0

\* don't flood: the loop ends once more than 5 number issues are listed
FloodStop(n) == n > FloodLimit

\* The loop over found_nums from position i on; acc are the number issues
\* so far.
RECURSIVE NumberIssues(_, _, _, _)
NumberIssues(found_nums, i, allowed_floats, acc) ==
    IF i > Len(found_nums) THEN acc
    ELSE IF \E af \in allowed_floats : Near(_as_float(found_nums[i]), af)
    THEN NumberIssues(found_nums, i + 1, allowed_floats, acc)
    ELSE IF FloodStop(Len(acc) + 1)
    THEN Append(acc, Issue("number not in snapshot context", found_nums[i]))
    ELSE NumberIssues(found_nums, i + 1, allowed_floats,
             Append(acc, Issue("number not in snapshot context",
                               found_nums[i])))

\* ok is set to False with every issue that is appended.
_verify_brief(markdown, infos, regimen) ==
    With(_normalize_numeric_tokens(markdown), LAMBDA found_nums :
    With(AllowedFloats(infos, regimen), LAMBDA allowed_floats :
    With(LayoutIssues(markdown, infos)
         \o NumberIssues(found_nums, 1, allowed_floats, <<>>),
         LAMBDA issues : [ok |-> issues = <<>>, issues |-> issues])))

-----------------------------------------------------------------------------
(* Specification of the verifier: one call on a markdown and a context.    *)

\* The most numerals in a markdown of the model.
MaxNumbers == 7

\* A regime with score 2 of 5; one indicator, or none.
VerifyContexts ==
    {[indicator_infos |-> infos, regime |-> [score |-> 2, max_score |-> 5]] :
        infos \in {<<>>,
                   <<[latest_value |-> <<"$", "2", "3", "9", ".", "9", "B">>,
                      z20 |-> [m |-> 0 - 17, e |-> 1],
                      flip_trigger |-> <<"<", " ", "5", " ", "or", " ", ">",
                                         " ", "2", "5">>]>>}}

\* The layout of a brief: complete, one bullet short, or absent.
Layouts ==
    {<<>>,
     <<"Regime:", " ", "Evidence:", "\n", "-", "\n", "-", "\n",
       "Interpretation", " ">>,
     <<"Regime:", " ", "Evidence:", "\n", "-", "\n", "-", "\n", "-", "\n",
       "Interpretation", " ">>}

\* The numerals that can stand at position i of the body: the score with a
\* decimal (at an even position) or the z-score (at an odd one), and 9i.
NumeralsAt(i) ==
    {IF i % 2 = 0 THEN <<"2", ".", "0">> ELSE <<"-", "1", ".", "7">>,
     <<"9", DigitChars[(i % Len(DigitChars)) + 1]>>}

RECURSIVE Bodies(_)
Bodies(n) ==
    IF n = 0 THEN {<<>>}
    ELSE {b \o <<" ">> \o w : b \in Bodies(n - 1), w \in NumeralsAt(n)}

Markdowns ==
    {layout \o b : layout \in Layouts,
                   b \in UNION {Bodies(n) : n \in 0..MaxNumbers}}

InitVerify ==
    /\ store = {}
    /\ nextId = 1
    /\ result = NoRead
    /\ registry = <<>>
    /\ response = NoResponse
    /\ snapshots = {}
    /\ nextSnap = 1
    /\ req = [p \in Procs |-> Idle]
    /\ qt_caps = {}
    /\ evaluation = NoEvaluation
    /\ router = NoRouter
    /\ tool = NoTool
    /\ AgentIdle
    /\ IngestIdle
    /\ context \in VerifyContexts
    /\ \E md \in Markdowns :
          completion = [does |-> "returns", after |-> 0, markdown |-> md]
    /\ worker = "none"
    /\ brief_pc = "idle"
    /\ brief = NoBrief
    /\ CacheIdle

BriefFrame ==
    UNCHANGED <<storeVars, registry, response, snapshots, nextSnap, req,
                qt_caps, evaluation, router, tool, agentVars, ingestVars>>
CachesUnchanged == UNCHANGED cacheVars

\* verifier = _verify_brief(raw_markdown, indicator_infos, regime)
VerifyBrief ==
    /\ ~brief.returned
    /\ brief' = [returned |-> TRUE,
                 markdown |-> completion.markdown,
                 verifier |-> _verify_brief(completion.markdown,
                                            context.indicator_infos,
                                            context.regime)]
    /\ UNCHANGED <<context, completion, worker, brief_pc>>
    /\ CachesUnchanged
    /\ BriefFrame

NextVerify == VerifyBrief

SpecVerify == InitVerify /\ [][NextVerify]_vars

-----------------------------------------------------------------------------
(* Claims about the brief verifier.                                        *)

\* The numerals of the verified markdown that are not within 1e-6 of a
\* number of the allowed set, in the order they stand.
OutsideTokens ==
    SelectSeq(_normalize_numeric_tokens(brief.markdown),
              LAMBDA t : \A af \in AllowedFloats(context.indicator_infos,
                                                 context.regime) :
                            ~Near(_as_float(t), af))

\* The numerals the verifier's issues name, in order.
NumbersNamed ==
    LET listed == SelectSeq(brief.verifier.issues,
                            LAMBDA x : x.kind = "number not in snapshot context")
    IN  [i \in 1..Len(listed) |-> listed[i].num]

\* C25 as stated: ok only if no numeral is outside the allowed set, and
\* every numeral outside it is named by an issue.
C25_EveryOutsideNumberIsNamed ==
    brief.returned =>
        /\ brief.verifier.ok => OutsideTokens = <<>>
        /\ OutsideTokens # <<>> => ~brief.verifier.ok
        /\ Range(OutsideTokens) \subseteq Range(NumbersNamed)

\* C25, amended: ok only if no numeral is outside the allowed set; when
\* some are, ok is false and the issues name the first six of them, in
\* order, and no other number.
C25_FirstSixOutsideNumbersAreNamed ==
    brief.returned =>
        /\ brief.verifier.ok => OutsideTokens = <<>>
        /\ OutsideTokens # <<>> => ~brief.verifier.ok
        /\ NumbersNamed = FirstN(OutsideTokens,
                                Min({Len(OutsideTokens), FloodLimit + 1}))

\* A markdown with more than six numerals outside the allowed set was
\* verified.
C25_Witness ==
    /\ brief.returned
    /\ Len(OutsideTokens) > FloodLimit + 1
    /\ brief.verifier.issues # <<>>

-----------------------------------------------------------------------------
(* The brief generator (app/llm/orchestrator.py, generate_brief and         *)
(* _complete_with_timeout).  The snapshot context is an input.  completion  *)
(* says what provider.complete does: return its markdown or raise, after so *)
(* many seconds, or hang.  worker is the thread of the executor, brief_pc   *)
(* the position of the thread that called generate_brief.                   *)

\* timeout_s=20.0
BriefTimeout == 20

\* Seconds a completion takes: less than the timeout, the timeout, more.
Latencies == {BriefTimeout - 1, BriefTimeout, BriefTimeout + 1}

\* The markdowns a provider returns: with or without the layout, with at
\* most one numeral.
Completions ==
    [does : {"returns", "raises", "hangs"},
     after : Latencies,
     markdown : {layout \o b : layout \in Layouts,
                               b \in Bodies(0) \cup Bodies(1)}]

InitBrief ==
    /\ store = {}
    /\ nextId = 1
    /\ result = NoRead
    /\ registry = <<>>
    /\ response = NoResponse
    /\ snapshots = {}
    /\ nextSnap = 1
    /\ req = [p \in Procs |-> Idle]
    /\ qt_caps = {}
    /\ evaluation = NoEvaluation
    /\ router = NoRouter
    /\ tool = NoTool
    /\ AgentIdle
    /\ IngestIdle
    /\ context \in VerifyContexts
    /\ completion \in Completions
    /\ worker = "none"
    /\ brief_pc = "idle"
    /\ brief = NoBrief
    /\ CacheIdle

\* ex.submit(provider.complete, prompt), then fut.result(timeout=timeout_s)
\* is waiting.
Submit ==
    /\ brief_pc = "idle"
    /\ ~brief.returned
    /\ worker' = "running"
    /\ brief_pc' = "result"
    /\ UNCHANGED <<context, completion, brief>>
    /\ CachesUnchanged
    /\ BriefFrame

\* provider.complete ends in the worker thread: it returns or raises.  A
\* completion slower than the timeout ends after the timeout has expired.
ProviderEnds ==
    /\ worker = "running"
    /\ completion.does # "hangs"
    /\ completion.after <= BriefTimeout \/ brief_pc # "result"
    /\ worker' = IF completion.does = "returns" THEN "returned" ELSE "raised"
    /\ UNCHANGED <<context, completion, brief_pc, brief>>
    /\ CachesUnchanged
    /\ BriefFrame

\* fut.result returns the value of the worker, or raises its exception.
ResultReady ==
    /\ brief_pc = "result"
    /\ worker \in {"returned", "raised"}
    /\ brief_pc' = IF worker = "returned" THEN "exit_value" ELSE "exit_error"
    /\ UNCHANGED <<context, completion, worker, brief>>
    /\ CachesUnchanged
    /\ BriefFrame

\* fut.result raises TimeoutError: the worker did not end within timeout_s.
TimeoutExpires ==
    /\ brief_pc = "result"
    /\ worker = "running"
    /\ completion.does = "hangs" \/ completion.after >= BriefTimeout
    /\ brief_pc' = "exit_error"
    /\ UNCHANGED <<context, completion, worker, brief>>
    /\ CachesUnchanged
    /\ BriefFrame

\* The with-block is left: ThreadPoolExecutor.__exit__ is shutdown(wait=True),
\* which joins the worker thread.
WorkerJoined(w) == w \in {"returned", "raised"}

\* _complete_with_timeout returns the value, or raises TimeoutError and
\* generate_brief takes raw_markdown = "".
LeaveExecutor ==
    /\ brief_pc \in {"exit_value", "exit_error"}
    /\ WorkerJoined(worker)
    /\ brief' = [brief EXCEPT !.markdown =
                    IF brief_pc = "exit_value" THEN completion.markdown
                    ELSE <<>>]
    /\ brief_pc' = "verify"
    /\ UNCHANGED <<context, completion, worker>>
    /\ CachesUnchanged
    /\ BriefFrame

BriefTTL == 5         \* _BRIEF_TTL_SECONDS, in ticks of 60 seconds
SnapshotTTL == 5      \* _SNAPSHOT_TTL_SECONDS, in ticks of 60 seconds

\* cache[key] = {..., "exp": exp}
CachePut(cache, key, val, exp) ==
    {e \in cache : e.key # key} \cup {[key |-> key, val |-> val, exp |-> exp]}

\* The horizon and the k generate_brief is called with: its defaults.
BriefHorizon == "1w"
BriefK == 12

\* _verify_brief, the brief and the snapshot are put in the process
\* caches, and the response is returned.
VerifyAndReturn ==
    /\ brief_pc = "verify"
    /\ brief' = [returned |-> TRUE,
                 markdown |-> brief.markdown,
                 verifier |-> _verify_brief(brief.markdown,
                                            context.indicator_infos,
                                            context.regime)]
    /\ brief_cache' = CachePut(brief_cache, <<BriefHorizon, BriefK>>,
                               brief.markdown, clock + BriefTTL)
    /\ snapshot_cache' = CachePut(snapshot_cache, BriefHorizon, context,
                                  clock + SnapshotTTL)
    /\ brief_pc' = "returned"
    /\ UNCHANGED <<context, completion, worker, clock, lookup>>
    /\ BriefFrame

\* The steps of the thread that called generate_brief.
BriefCaller ==
    \/ Submit
    \/ ResultReady
    \/ TimeoutExpires
    \/ LeaveExecutor
    \/ VerifyAndReturn

NextBrief ==
    \/ BriefCaller
    \/ ProviderEnds

SpecBrief == InitBrief /\ [][NextBrief]_vars

\* Both threads are scheduled: the caller takes its next step when it has
\* one, and a provider call that ends does end.  Nothing makes a provider
\* call that hangs end.
SpecBriefFair ==
    /\ SpecBrief
    /\ WF_vars(BriefCaller)
    /\ WF_vars(ProviderEnds)

-----------------------------------------------------------------------------
(* Claims about the brief generator.                                       *)

\* The provider does not answer in time: it hangs, raises, or takes longer
\* than the timeout.
NoAnswerInTime ==
    \/ completion.does \in {"hangs", "raises"}
    \/ completion.after > BriefTimeout

\* C26: when the provider's completion does not return within the timeout
\* (or never returns) or raises, generate_brief still returns, with empty
\* markdown and a verifier report whose ok is false.
C26_BriefReturnsWithoutProvider ==
    (brief_pc = "result" /\ NoAnswerInTime)
        ~> (/\ brief.returned
            /\ brief.markdown = <<>>
            /\ ~brief.verifier.ok)

-----------------------------------------------------------------------------
(* Claims about the chunks of one step of the agent stream.                *)

\* What a stream says: its chunks, joined.
RECURSIVE Said(_)
Said(chunks) ==
    IF chunks = <<>> THEN <<>> ELSE Head(chunks) \o Said(Tail(chunks))

\* The text spells TOOL <name> <json object>, and the object parses.
Directive(text) ==
    /\ Len(text) >= 5
    /\ text[1] = "TOOL" /\ text[2] = " " /\ text[3] # " " /\ text[4] = " "
    /\ Parses(SubSeq(text, 5, Len(text)))

DirectiveName(text) == <<text[3]>>
DirectiveArgs(text) == Loads(SubSeq(text, 5, Len(text)))

\* The chunks of a directive that is cut after its opening brace, not cut
\* at all, or cut after the tool name.
DirectiveChunks ==
    {<<"TOOL", " ", "get_indicator_doc", " ", "{">>,
     <<"\"id\":1", "}">>,
     <<"TOOL", " ", "get_indicator_doc", " ", "{", "\"id\":1", "}">>,
     <<"TOOL", " ", "get_indicator_doc">>,
     <<" ", "{", "\"id\":1", "}">>}

DirectiveStreams == UNION {[1..n -> DirectiveChunks] : n \in 0..MaxChunks}

\* The agent stream when the model answers with directives.
NextDirective ==
    \/ \E q \in Questions, brief_md \in Briefs : AgentStart(q, brief_md)
    \/ \E chunks \in DirectiveStreams, raises \in BOOLEAN :
          AgentStep(chunks, raises)
    \/ AgentFinish

SpecDirective == InitAgent /\ [][NextDirective]_vars

\* The events a step has yielded.
YieldedBy(before, after) == SubSeq(after, Len(before) + 1, Len(after))

\* The positions of the events of a name in a sequence of events.
Named(yielded, name) ==
    {i \in 1..Len(yielded) : yielded[i].event = name}

\* C31: when the chunks of a step spell TOOL <name> <json object> with an
\* object that parses, however they are cut, and the call does not repeat
\* the last executed one, the step executes the tool once with these
\* arguments and yields one tool_call event, then its tool_result event.
C31_DirectiveInvokesToolOnce ==
    [][\A chunks \in DirectiveStreams :
          LET text == Said(chunks)
              name == DirectiveName(text)
              args == DirectiveArgs(text)
              yielded == YieldedBy(events, events')
          IN  (/\ Directive(text)
               /\ AgentStep(chunks, FALSE)
               /\ ~RepeatsLast(tool_trace, name, args))
              => /\ tool_trace' =
                       Append(tool_trace,
                              [tool |-> name, args |-> args,
                               result |-> AgentToolResult(name, args)])
                 /\ \E i \in 1..(Len(yielded) - 1) :
                       /\ Named(yielded, "tool_call") = {i}
                       /\ Named(yielded, "tool_result") = {i + 1}
                       /\ yielded[i].data = [name |-> name, args |-> args]]_vars

\* C32: when the chunks of a step spell a TOOL directive, however they
\* are cut, the step yields no thinking_token event: neither the marker
\* nor the tool name nor the JSON arguments are shown as thinking.
C32_DirectiveIsNeverThinking ==
    [][\A chunks \in DirectiveStreams, raises \in BOOLEAN :
          (Directive(Said(chunks)) /\ AgentStep(chunks, raises))
          => Named(YieldedBy(events, events'), "thinking_token") = {}]_vars

\* The stream state after the first j chunks have been consumed.
RECURSIVE Consumed(_, _)
Consumed(s, chunks) ==
    IF chunks = <<>> \/ s.outcome = "break" THEN s
    ELSE Consumed(Consume(s, Head(chunks)), Tail(chunks))

BufferAfter(chunks, j) ==
    Consumed(StepBegin(<<>>, <<>>, <<>>), SubSeq(chunks, 1, j)).buffer

\* The chunks after which the accumulated buffer contains "FINAL ".
FinalSeen(chunks) ==
    {j \in 1..Len(chunks) : Contains(BufferAfter(chunks, j), "FINAL")}

\* The texts of the answer_token events among the events, in their order.
RECURSIVE AnswerTokens(_)
AnswerTokens(yielded) ==
    IF yielded = <<>> THEN <<>>
    ELSE (IF Head(yielded).event = "answer_token"
          THEN <<Head(yielded).data.text>> ELSE <<>>)
         \o AnswerTokens(Tail(yielded))

\* The streams whose accumulated buffer comes to contain "FINAL ".
FinalStreams == {chunks \in Streams : FinalSeen(chunks) # {}}

NotAfterFinal == {"thinking_token", "tool_call", "tool_result"}

\* What a step that reads the chunks yields and how it ends.
StepOf(chunks, raises) ==
    StreamLoop(StepBegin(messages, tool_trace, answer_text), chunks, raises)

\* The events of a step whose buffer came to contain "FINAL " with chunk j.
AnswersAfterFinal(s, chunks) ==
    LET j == Least(FinalSeen(chunks))
        remainder == After(BufferAfter(chunks, j), "FINAL")
        d == Least(Named(s.yielded, "decision"))
    IN  /\ AnswerTokens(s.yielded) =
              (IF remainder # <<>> THEN <<remainder>> ELSE <<>>)
              \o SubSeq(chunks, j + 1, Len(chunks))
        /\ s.yielded[d].data = [type |-> "final"]
        /\ \A i \in (d + 1)..Len(s.yielded) :
              s.yielded[i].event \notin NotAfterFinal
        /\ ~Continues(s.outcome)

\* C33: when the buffer of a step comes to contain "FINAL " with chunk j,
\* the answer_token events of the step are the text after the marker, if
\* there is any, then chunk j+1, chunk j+2 and so on; after the decision
\* event of chunk j the step yields no thinking_token, tool_call or
\* tool_result event; and no step follows, so that the stream has none of
\* these events after a final decision.
C33_AfterFinalOnlyAnswerTokens ==
    /\ \A i \in 1..Len(events) :
          events[i] = Ev("decision", [type |-> "final"]) =>
             \A k \in (i + 1)..Len(events) :
                events[k].event \notin NotAfterFinal
    /\ (pc = "loop" /\ step < MaxAgentSteps) =>
          \A chunks \in FinalStreams, raises \in BOOLEAN :
             With(StepOf(chunks, raises),
                  LAMBDA s : AnswersAfterFinal(s, chunks))

\* C33 witness: a step has detected FINAL, streamed the text after the
\* marker and then a later chunk as answer tokens, and has ended.
C33_Witness ==
    /\ pc = "ended"
    /\ \E i \in 1..(Len(events) - 2) :
          /\ events[i] = Ev("decision", [type |-> "final"])
          /\ events[i + 1] = Ev("answer_token", [text |-> <<"ok">>])
          /\ \E k \in (i + 2)..Len(events) :
                events[k].event = "answer_token"

-----------------------------------------------------------------------------
(* Claims about the input of the provider stream calls.                    *)

\* C34: what a provider stream call of the agent stream is sent contains
\* the system prompt and the user's question, whatever has been appended
\* to the conversation before the step.
C34_InputKeepsSystemPromptAndQuestion ==
    model_input # <<>> =>
        /\ \E i \in 1..Len(model_input) :
              model_input[i] = Message("system", <<"SystemPrompt">>)
        /\ \E i \in 1..Len(model_input) :
              model_input[i] =
                 Message("user", <<"Question:", " ">> \o _redact_pii(question))

\* C36: a step of the agent stream yields at most one decision event, and
\* a step in which FINAL was detected yields exactly one; so the stream
\* never carries more decision events than it has made steps.
C36_OneDecisionPerStep ==
    [][/\ Cardinality(Named(YieldedBy(events, events'), "decision")) <= 1
       /\ Cardinality(Named(events', "decision")) <= step'
       /\ \A chunks \in FinalStreams, raises \in BOOLEAN :
             AgentStep(chunks, raises) =>
                Cardinality(Named(YieldedBy(events, events'), "decision")) = 1
      ]_vars

-----------------------------------------------------------------------------
(* The process caches of app/llm/orchestrator.py: the tool cache of        *)
(* indicator histories (tool.cache), the brief cache and the snapshot      *)
(* cache.  One tick of the clock is 60 seconds.                            *)

MaxCacheClock == 6    \* ticks the process clock advances in one behaviour

\* time.time() has advanced.
Tick ==
    /\ clock < MaxCacheClock
    /\ clock' = clock + 1
    /\ UNCHANGED <<storeVars, registry, response, snapshots, nextSnap, req,
                   qt_caps, evaluation, router, tool, agentVars, ingestVars,
                   context, completion, worker, brief_pc, brief, brief_cache,
                   snapshot_cache, lookup>>

\* What a lookup found under its key: nothing, a live or an expired entry.
Found(cache, key, now) ==
    IF \A e \in cache : e.key # key THEN "none"
    ELSE IF CacheHit(cache, key, now) # {} THEN "live" ELSE "expired"

Looked(name, key, found, val, computed) ==
    [cache |-> name, key |-> key, found |-> found, val |-> val,
     computed |-> computed]

CacheFrame ==
    UNCHANGED <<storeVars, registry, response, snapshots, nextSnap, req,
                qt_caps, evaluation, router, agentVars, ingestVars, context,
                completion, worker, brief_pc, brief>>

\* What generate_brief does when _get_cached_brief calls it: it raises, or
\* it returns a markdown (the empty one after a timeout).
GeneratedBriefs ==
    {[raises |-> TRUE, markdown |-> <<>>]} \cup
    {[raises |-> FALSE, markdown |-> md] :
        md \in {<<>>, <<"Regime:", " ", "Neutral">>}}

\* What compute_snapshot returned to generate_brief at a time.
SnapAt(now) == [as_of |-> now]

\* Ticks a call of generate_brief may take.
BriefTicks == {0, 1}

\* _get_cached_brief: the markdown of a live entry; otherwise generate_brief
\* is called, which fills both caches when it does not raise, and the entry
\* of the key is overwritten with the expiry counted from the lookup.
GetCachedBrief(horizon, k) ==
    LET key == <<horizon, k>>
        now == clock
        found == Found(brief_cache, key, now)
    IN  /\ IF found = "live"
           THEN /\ \E e \in CacheHit(brief_cache, key, now) :
                      lookup' = Looked("brief", key, found, e.val, FALSE)
                /\ UNCHANGED <<clock, brief_cache, snapshot_cache>>
           ELSE \E br \in GeneratedBriefs, d \in BriefTicks :
                   /\ now + d <= MaxCacheClock
                   /\ clock' = now + d
                   /\ lookup' = Looked("brief", key, found, br.markdown, TRUE)
                   /\ brief_cache' =
                         CachePut(brief_cache, key, br.markdown,
                                  now + BriefTTL)
                   /\ snapshot_cache' =
                         IF br.raises THEN snapshot_cache
                         ELSE CachePut(snapshot_cache, horizon,
                                       SnapAt(now + d),
                                       now + d + SnapshotTTL)
        /\ UNCHANGED tool
        /\ CacheFrame

NoSnap == [as_of |-> NULL]

\* _get_cached_snapshot: the snapshot of a live entry; an expired entry is
\* deleted and None returned.
GetCachedSnapshot(horizon) ==
    LET now == clock
        found == Found(snapshot_cache, horizon, now)
    IN  /\ IF found = "live"
           THEN /\ \E e \in CacheHit(snapshot_cache, horizon, now) :
                      lookup' = Looked("snapshot", horizon, found, e.val,
                                       FALSE)
                /\ UNCHANGED snapshot_cache
           ELSE /\ lookup' = Looked("snapshot", horizon, found, NoSnap, FALSE)
                /\ snapshot_cache' =
                      {e \in snapshot_cache : e.key # horizon}
        /\ UNCHANGED <<clock, brief_cache, tool>>
        /\ CacheFrame

\* What _get_indicator_history may return for a key, as the snapshots
\* table changes; or it raises.
HistoryValues == {"history1", "history2", "raises"}

\* get_indicator_history in _execute_tool: _cache_get, and after a miss
\* _get_indicator_history and _cache_set.  _cache_get has deleted an
\* expired entry when _get_indicator_history raises.
GetIndicatorHistoryCached(indicator_id, horizon, days) ==
    LET key == <<indicator_id, horizon, days>>
        now == clock
        found == Found(tool.cache, key, now)
    IN  /\ IF found = "live"
           THEN \E e \in CacheHit(tool.cache, key, now) :
                   /\ lookup' = Looked("indicator_history", key, found,
                                       e.val, FALSE)
                   /\ ToolReturns("get_indicator_history", e.val, tool.cache,
                                  now)
           ELSE \E val \in HistoryValues :
                   /\ lookup' = Looked("indicator_history", key, found,
                                       val, TRUE)
                   /\ ToolReturns("get_indicator_history",
                         IF val = "raises" THEN ToolError ELSE val,
                         IF val = "raises"
                         THEN {e \in tool.cache : e.key # key}
                         ELSE CacheSet(tool.cache, key, val, now), now)
        /\ UNCHANGED <<clock, brief_cache, snapshot_cache>>
        /\ CacheFrame

InitCache ==
    /\ store = {}
    /\ nextId = 1
    /\ result = NoRead
    /\ registry = <<>>
    /\ response = NoResponse
    /\ snapshots = {}
    /\ nextSnap = 1
    /\ req = [p \in Procs |-> Idle]
    /\ qt_caps = {}
    /\ evaluation = NoEvaluation
    /\ router = NoRouter
    /\ tool = NoTool
    /\ AgentIdle
    /\ IngestIdle
    /\ BriefIdle

\* The k of the lookups: the one of agent_answer_question_events.
CacheKs == {6}

CacheDays == {90}

NextCache ==
    \/ Tick
    \/ \E horizon \in ToolHorizons, k \in CacheKs : GetCachedBrief(horizon, k)
    \/ \E horizon \in ToolHorizons : GetCachedSnapshot(horizon)
    \/ \E days \in CacheDays : GetIndicatorHistoryCached("a1", "1w", days)

SpecCache == InitCache /\ [][NextCache]_vars

\* The entries a cache holds under a key.
Stored(cache, key) == {e \in cache : e.key = key}

\* C35: in each of the three process caches, a lookup made before the
\* expiry of the entry of its key returns the stored value, computes
\* nothing and leaves the cache as it is; a lookup made at the expiry or
\* later does not return the stored entry: the brief and the indicator
\* history are computed again and the entry is overwritten (or deleted,
\* when the computation of the history raises), and the snapshot lookup
\* returns None and deletes the entry.
C35_CacheHitsBeforeExpiryOnly ==
    [][/\ \A horizon \in ToolHorizons, k \in CacheKs :
             GetCachedBrief(horizon, k) =>
                \A e \in Stored(brief_cache, <<horizon, k>>) :
                   IF clock < e.exp
                   THEN /\ lookup'.val = e.val
                        /\ ~lookup'.computed
                        /\ UNCHANGED <<brief_cache, snapshot_cache>>
                   ELSE /\ lookup'.computed
                        /\ \A f \in Stored(brief_cache', <<horizon, k>>) :
                              f.exp = clock + BriefTTL
       /\ \A horizon \in ToolHorizons :
             GetCachedSnapshot(horizon) =>
                \A e \in Stored(snapshot_cache, horizon) :
                   IF clock < e.exp
                   THEN /\ lookup'.val = e.val
                        /\ UNCHANGED snapshot_cache
                   ELSE /\ lookup'.val = NoSnap
                        /\ Stored(snapshot_cache', horizon) = {}
       /\ \A days \in CacheDays :
             GetIndicatorHistoryCached("a1", "1w", days) =>
                \A e \in Stored(tool.cache, <<"a1", "1w", days>>) :
                   IF clock < e.exp
                   THEN /\ tool'.result = e.val
                        /\ ~lookup'.computed
                        /\ tool'.cache = tool.cache
                   ELSE /\ lookup'.computed
                        /\ \A f \in Stored(tool'.cache, <<"a1", "1w", days>>) :
                              f.exp = clock + CacheTTL
      ]_vars

\* C35 witness: the brief lookup has just found an expired entry and
\* computed the brief again, after the indicator history was served from
\* the cache and while the snapshot cache holds an expired entry.
C35_Witness ==
    /\ lookup.cache = "brief"
    /\ lookup.found = "expired"
    /\ lookup.computed
    /\ tool.name = "get_indicator_history"
    /\ \E e \in tool.cache : e.val = tool.result /\ e.exp > tool.now + 0
    /\ \E e \in snapshot_cache : e.exp <= clock

-----------------------------------------------------------------------------
(* The derived series under repeated ingests: raw observations arrive in   *)
(* the order of their dates and the builders are invoked at any time.      *)

\* The raw series the two builders read (here without DTB4WK).
SpreadInputs == {"DTB3", "RRP_RATE"}
SettleInputs == {"UST_AUCTION_ISSUES", "UST_REDEMPTIONS", "UST_INTEREST"}

\* The observation dates of the raw rows: two days, or the Mondays of two
\* weeks.
RawDays(sid) == IF sid \in SpreadInputs THEN {0, 1} ELSE {0, DaysPerWeek}

\* The values published for a series: the RRP rate is revised.
RawValues(sid) == IF sid = "RRP_RATE" THEN {1, 2} ELSE {3}

\* The window of the builders, scaled down to the dates of the model.
SpreadDaysBack == 1   \* days_back of upsert_bill_rrp_spread
SettleWeeksBack == 1  \* weeks_back of upsert_weekly_net_settlements

DerivedFrame ==
    /\ UNCHANGED <<outage, tasks, ingested, built, stage>>
    /\ IngestFrame

\* upsert_series_vintages of one observation of a raw series.  A behaviour
\* feeds one of the two builders.
RawUpsert(sid, d, v) ==
    /\ \A e \in store :
          /\ e.series_id \in SpreadInputs \cup {"BILL_RRP_BPS"}
                <=> sid \in SpreadInputs
          /\ e.series_id \in SpreadInputs \cup SettleInputs
                => e.observation_date <= d
    /\ \E o \in Upserted(store, nextId, sid,
                         <<[observation_date |-> d, vintage_date |-> NULL,
                            publication_date |-> NULL,
                            fetched_at |-> d * TicksPerDay,
                            value_numeric |-> v]>>, 1) :
          /\ store' = o[1]
          /\ nextId' = o[2]
    /\ DerivedFrame

\* What compute_bill_rrp_points may return on a table.
SpreadPoints(db, days_back) ==
    {compute_bill_rrp_points(dtb3, dtb4, rrp) :
        dtb3 \in ReadResults("latest_points", db, "DTB3", NULL, days_back),
        dtb4 \in ReadResults("latest_points", db, "DTB4WK", NULL, days_back),
        rrp \in ReadResults("latest_points", db, "RRP_RATE", NULL, days_back)}

\* What compute_weekly_net_settlements may return on a table.
SettlePoints(db, weeks_back) ==
    {compute_weekly_net_settlements(issues, redemptions, interest,
                                    weeks_back) :
        issues \in ReadResults("latest_points", db, "UST_AUCTION_ISSUES",
                               NULL, weeks_back * PointsPerWeek),
        redemptions \in ReadResults("latest_points", db, "UST_REDEMPTIONS",
                                    NULL, weeks_back * PointsPerWeek),
        interest \in ReadResults("latest_points", db, "UST_INTEREST", NULL,
                                 weeks_back * PointsPerWeek)}

\* (a defect: the rows stored for the series are deleted first)
BuildDerived_FromScratch(sid, computed) ==
    /\ \E rows \in computed :
       \E o \in Upserted({e \in store : e.series_id # sid}, nextId, sid,
                         DerivedPayload(rows, 0), 1) :
          /\ store' = o[1]
          /\ nextId' = o[2]
    /\ DerivedFrame

\* The rows computed are upserted under the derived series id.
BuildDerived(sid, computed) ==
    /\ \E rows \in computed :
       \E o \in Upserted(store, nextId, sid, DerivedPayload(rows, 0), 1) :
          /\ store' = o[1]
          /\ nextId' = o[2]
    /\ DerivedFrame

\* upsert_bill_rrp_spread(db, days_back=...)
BuildBillRrpSpread(days_back) ==
    BuildDerived("BILL_RRP_BPS", SpreadPoints(store, days_back))

\* upsert_weekly_net_settlements(db, weeks_back=...)
BuildWeeklyNetSettlements(weeks_back) ==
    BuildDerived("UST_NET_SETTLE_W", SettlePoints(store, weeks_back))

NextDerived ==
    \/ \E sid \in SpreadInputs \cup SettleInputs :
       \E d \in RawDays(sid), v \in RawValues(sid) : RawUpsert(sid, d, v)
    \/ BuildBillRrpSpread(SpreadDaysBack)
    \/ BuildWeeklyNetSettlements(SettleWeeksBack)

SpecDerived == InitIngest /\ [][NextDerived]_vars

\* The <<observation date, value>> pairs stored under a series id.
DerivedPoints(db, sid) ==
    {<<e.observation_date, e.value_numeric>> :
        e \in {x \in db : x.series_id = sid}}

\* The <<observation date, value>> pairs of a list of computed rows.
PointsOf(rows) ==
    {<<rows[i].observation_date, rows[i].value_numeric>> : i \in 1..Len(rows)}

\* C37 as claimed: right after a builder has run, the stored derived
\* series has exactly the observation dates and values the builder
\* computes from the raw series: no other row is left.
C37_StoredDerivedIsComputed ==
    [][/\ BuildBillRrpSpread(SpreadDaysBack) =>
             \E rows \in SpreadPoints(store', SpreadDaysBack) :
                DerivedPoints(store', "BILL_RRP_BPS") = PointsOf(rows)
       /\ BuildWeeklyNetSettlements(SettleWeeksBack) =>
             \E rows \in SettlePoints(store', SettleWeeksBack) :
                DerivedPoints(store', "UST_NET_SETTLE_W") = PointsOf(rows)
      ]_vars

\* The derived rows of a table whose date is not among the computed rows.
NotComputed(db, sid, rows) ==
    {e \in db : e.series_id = sid /\ e.observation_date \notin ObservedOn(rows)}

\* Right after the builder of sid has run: every computed row is stored,
\* with the computed value and as the only row of its date, and the rows
\* of the dates that are not computed any more are kept as they were.
KeepsAndUpserts(sid, computed) ==
    \E rows \in computed :
       /\ PointsOf(rows) \subseteq DerivedPoints(store', sid)
       /\ \A d \in ObservedOn(rows) :
             Cardinality({e \in store' : e.series_id = sid
                                          /\ e.observation_date = d}) = 1
       /\ NotComputed(store', sid, rows) = NotComputed(store, sid, rows)

\* C37, amended: right after a builder has run, the stored derived series
\* holds every observation date the builder computes, once and with the
\* computed value; the rows stored earlier for dates the computation no
\* longer yields are not deleted.
C37_ComputedRowsAreUpserted ==
    [][/\ BuildBillRrpSpread(SpreadDaysBack) =>
             KeepsAndUpserts("BILL_RRP_BPS",
                             SpreadPoints(store', SpreadDaysBack))
       /\ BuildWeeklyNetSettlements(SettleWeeksBack) =>
             KeepsAndUpserts("UST_NET_SETTLE_W",
                             SettlePoints(store', SettleWeeksBack))
      ]_vars

\* C37 witness: the spread of day 0 is stored with a value that is no
\* longer the one of the first build, next to the spread of day 1, which
\* is all the builder computes now.
C37_Witness ==
    /\ \E e \in store : e.series_id = "BILL_RRP_BPS" /\ e.observation_date = 0
    /\ \E e \in store : e.series_id = "BILL_RRP_BPS" /\ e.observation_date = 1
    /\ \A rows \in SpreadPoints(store, SpreadDaysBack) :
          ObservedOn(rows) = {1}

-----------------------------------------------------------------------------
(* Claims about the regime of a snapshot.                                  *)

\* C38: the regime of a computed snapshot has |score| <= max_score, the
\* label Positive only with the tilt positive and the label Negative only
\* with the tilt negative.
C38_ScoreWithinMaxScore ==
    response # NoResponse =>
       LET r == response.regime
       IN  /\ Abs(r.score) <= r.max_score
           /\ r.label = "Positive" => r.tilt = "positive"
           /\ r.label = "Negative" => r.tilt = "negative"

-----------------------------------------------------------------------------
(* Claims about the frozen inputs of the persisted snapshots.              *)

\* C39: in every persisted snapshot, each indicator with a
\* snapshot_indicators row has at least one item (indicator_id, series_id,
\* vintage_id, observation_date) in the frozen inputs of the snapshot,
\* whatever k the request was made with.
C39_EveryPersistedIndicatorIsFrozen ==
    \A x \in snapshots :
       \A i \in 1..Len(x.indicators) :
          \E j \in 1..Len(x.frozen_inputs) :
             x.frozen_inputs[j].indicator_id = x.indicators[i].id


-----------------------------------------------------------------------------
\* The event requests that fail

\* The text of the as_of parameter: a wall clock followed by a zone
\* designator, or nothing.
ZoneOffset == [x \in {"+00:00", "-01:00"} |->
                  IF x = "+00:00" THEN 0 ELSE -1]

AsOfText(given, wall, zone) == [given |-> given, wall |-> wall, zone |-> zone]

NoText == AsOfText(FALSE, 0, "")

\* The texts a request carries: none, a valid timestamp in one of three
\* spellings, and a timestamp whose zone designator is not ISO 8601.
AsOfTexts(now) ==
    {NoText} \cup {AsOfText(TRUE, now + ZoneOffset[z], z) : z \in DOMAIN ZoneOffset}
             \cup {AsOfText(TRUE, now, "Z"), AsOfText(TRUE, now, "ZZ")}

\* as_of.strip(), the trailing Z rewritten, datetime.fromisoformat; a
\* ValueError is the error of the result.
ParseAsOf(as_of) ==
    IF ~as_of.given THEN [error |-> FALSE, as_of_dt |-> NoAsOf]
    ELSE LET norm == IF as_of.zone = "Z" THEN "+00:00" ELSE as_of.zone
         IN  IF norm \in DOMAIN ZoneOffset
             THEN [error |-> FALSE,
                   as_of_dt |-> [instant |-> as_of.wall - ZoneOffset[norm],
                                 offset |-> ZoneOffset[norm]]]
             ELSE [error |-> TRUE, as_of_dt |-> NoAsOf]

\* What a worker keeps of a request it has answered with an error.
Refused(kind, horizon, as_of_dt, status) ==
    [pc |-> "done", kind |-> kind, horizon |-> horizon, as_of |-> as_of_dt,
     status |-> status]

EventFrame == UNCHANGED <<storeVars, registry, response, nextSnap, evalVars>>

\* POST /events/recompute with a text that parses, up to the commit of the
\* delete.
Recompute(p, horizon, k, as_of, as_of_mode, now) ==
    /\ ~ParseAsOf(as_of).error
    /\ RecomputeBegin(p, horizon, k, ParseAsOf(as_of).as_of_dt, as_of_mode,
                      now)

\* POST /events/recompute with a text that does not parse: HTTP 400.
RecomputeRejected(p, horizon, as_of) ==
    /\ req[p].pc \in {"idle", "done"}
    /\ ParseAsOf(as_of).error
    /\ req' = [req EXCEPT ![p] = Refused("recompute", horizon, NoAsOf, 400)]
    /\ UNCHANGED snapshots
    /\ EventFrame

\* POST /events/recompute whose compute_snapshot raises: the delete is
\* committed, nothing of the computation is, and the error is the answer.
RecomputeFails(p, horizon, as_of, now) ==
    /\ req[p].pc \in {"idle", "done"}
    /\ ~ParseAsOf(as_of).error
    /\ LET as_of_dt == ParseAsOf(as_of).as_of_dt
           target_dt == IF as_of_dt = NoAsOf THEN UtcNow(now) ELSE as_of_dt
       IN  /\ snapshots' = DeleteDay(snapshots, horizon, LocalDate(target_dt))
           /\ req' = [req EXCEPT ![p] =
                         Refused("recompute", horizon, target_dt, 500)]
    /\ EventFrame

\* POST /events/backfill_history whose compute_snapshot raises on the
\* first day.
BackfillFails(p, horizon, days, now) ==
    /\ req[p].pc \in {"idle", "done"}
    /\ snapshots' = DeleteDay(snapshots, horizon,
                              LocalDate(BackfillAsOf(now, days)))
    /\ req' = [req EXCEPT ![p] =
                  Refused("backfill", horizon, BackfillAsOf(now, days), 500)]
    /\ EventFrame

\* A backfill whose compute_snapshot raises on a later day.
BackfillNextFails(p) ==
    /\ req[p].pc = "delete"
    /\ LET r == req[p]
           as_of_dt == BackfillAsOf(r.now, r.i)
       IN  /\ snapshots' = DeleteDay(snapshots, r.horizon, LocalDate(as_of_dt))
           /\ req' = [req EXCEPT ![p] =
                         Refused("backfill", r.horizon, as_of_dt, 500)]
    /\ EventFrame

\* One worker, the default as_of_mode of a backfill and one k.
NextFail ==
    \/ \E horizon \in Horizons, now \in RequestTimes :
          \E as_of \in AsOfTexts(now) :
              \/ Recompute(1, horizon, 2, as_of, "obs", now)
              \/ RecomputeRejected(1, horizon, as_of)
              \/ RecomputeFails(1, horizon, as_of, now)
    \/ \E horizon \in Horizons, days \in 0..MaxDays, now \in RequestTimes :
          \/ BackfillBegin(1, horizon, days, 2, "obs", now)
          \/ BackfillFails(1, horizon, days, now)
    \/ BackfillNext(1)
    \/ BackfillNextFails(1)
    \/ Save(1)

SpecFail == InitEvents /\ [][NextFail]_vars

\* The snapshots of the (horizon, day) of the request answered in a step.
OfTheDay(rows, r) ==
    {s \in rows : s.horizon = r.horizon /\ DateOf(s.as_of) = LocalDate(r.as_of)}

\* C40: a request whose snapshot computation fails leaves the persisted
\* snapshots as they were, the snapshot of its (horizon, day) included, and
\* a request whose as_of does not parse is answered 400 with nothing
\* deleted.
C40_FailedRequestKeepsSnapshots ==
    [][/\ (\E horizon \in Horizons, now \in RequestTimes :
              \E as_of \in AsOfTexts(now) :
                  RecomputeFails(1, horizon, as_of, now))
          => /\ OfTheDay(snapshots, req'[1]) \subseteq snapshots'
             /\ snapshots' = snapshots
       /\ (\/ BackfillNextFails(1)
           \/ \E horizon \in Horizons, days \in 0..MaxDays,
                 now \in RequestTimes : BackfillFails(1, horizon, days, now))
          => OfTheDay(snapshots, req'[1]) \subseteq snapshots'
       /\ (\E horizon \in Horizons, now \in RequestTimes :
              \E as_of \in AsOfTexts(now) :
                  RecomputeRejected(1, horizon, as_of))
          => /\ req'[1].status = 400
             /\ snapshots' = snapshots]_vars

=============================================================================
